---- MODULE Spec2Model ----
(***************************************************************************)
(* Model of the bank-data crawl pipeline of creditmate-ai-be:              *)
(*   banks/models.py                         BankDataSource, CrawledContent *)
(*   banks/services/bank_data_crawler.py     BankDataCrawlerService        *)
(*   banks/services/llm_parser.py            LLMContentParser              *)
(*   banks/validators/credit_card_validator.py                             *)
(*   banks/services/credit_card_data_service.py                            *)
(*   banks/tasks.py                          cleanup_old_crawled_content   *)
(*   common/llm/services.py                  LLMOrchestrator               *)
(*                                                                         *)
(* Time is counted in days.  CrawledContent rows are kept in creation      *)
(* order, which is the order of crawled_at (auto_now_add): "the most       *)
(* recent row" is the last matching row of the sequence.                   *)
(* A message built by an f-string is the sequence of its parts.            *)
(***************************************************************************)
EXTENDS Integers, Sequences, FiniteSets, TLC

VARIABLES sources, records, cards, now, last, orch, crawls, task, call

vars == <<sources, records, cards, now, last, orch, crawls, task, call>>

----------------------------------------------------------------------------
(* Bounds of the model *)

MaxTime == 2          \* the clock runs over 0..MaxTime days
MaxRecords == 2       \* CrawledContent rows the table can hold
MaxFailed == 5        \* failed_attempt_count is followed up to this value
MaxSyncs == 1         \* sync_timestamps entries followed per row
MaxRetries == 1       \* generate_response is called with max_retries in 0..MaxRetries
MaxCrawls == 2        \* crawl_bank_data_source tasks run by the workers
MaxSources == 2       \* BankDataSource rows that URL discovery creates

(* Program constants *)
LinksLimit == 50              \* "links": links[:50] of _fetch_webpage_content
TaskMaxRetries == 3           \* @shared_task(bind=True, max_retries=3, ...)

FailureThreshold == 5         \* increment_failed_attempts: >= 5 deactivates

Null == 0 - 1                 \* None in a DateTimeField
DataSourceIds == {1}          \* rows of BankDataSource
UnknownId == 1 + Cardinality(DataSourceIds)   \* an id with no row
BankOf(id) == 1               \* every modelled source belongs to bank 1
Texts == {"t1", "t2"}         \* extracted texts the remote document can have
DaysToKeep == {1}             \* arguments of cleanup_old_crawled_content

----------------------------------------------------------------------------
(* JSON values, by their shape.  A dict {"validation_errors": .., "data": d} *)
(* is the value d tagged t = "validation_errors", with d's own shape in      *)
(* inner.                                                                    *)

\* a str is the sequence of its characters
Gold == <<"G", "o", "l", "d">>

GoldCard == [name |-> Gold, annual_fee |-> 95]
NegativeFeeCard == [name |-> Gold, annual_fee |-> 0 - 5]

JList(cs) == [t |-> "list", inner |-> "", cards |-> cs, error |-> <<>>]
JErrorDict(msg) == [t |-> "error_dict", inner |-> "", cards |-> <<>>, error |-> msg]
JEmptyDict == [t |-> "empty_dict", inner |-> "", cards |-> <<>>, error |-> <<>>]
JCreditCardsNull == [t |-> "credit_cards_null", inner |-> "", cards |-> <<>>, error |-> <<>>]
JScalar == [t |-> "scalar", inner |-> "", cards |-> <<>>, error |-> <<>>]
JInfo == [t |-> "info", inner |-> "", cards |-> <<>>, error |-> <<>>]
JWrapper(d) == [t |-> "validation_errors", inner |-> d.t, cards |-> d.cards, error |-> d.error]

\* what json.loads can return for the structured response of the LLM
LLMJson ==
    { JList(<<>>), JList(<<GoldCard>>), JList(<<NegativeFeeCard>>),
      JErrorDict(<<"quota exceeded">>), JCreditCardsNull, JScalar }

\* Python truthiness of a JSON value
Truthy(j) ==
    CASE j.t = "list" -> j.cards # <<>>
      [] j.t = "empty_dict" -> FALSE
      [] OTHER -> TRUE

----------------------------------------------------------------------------
(* banks/models.py *)

NewDataSource ==
    [is_active |-> TRUE, failed_attempt_count |-> 0,
     last_crawled_at |-> Null, last_successful_crawl_at |-> Null]

\* variant: deactivates only once the count is above the threshold
increment_failed_attempts_above(ds) ==
    LET n == ds.failed_attempt_count + 1 IN
    [ds EXCEPT !.failed_attempt_count = n,
               !.is_active = IF n > FailureThreshold THEN FALSE ELSE @]

increment_failed_attempts(ds) ==
    LET n == ds.failed_attempt_count + 1 IN
    [ds EXCEPT !.failed_attempt_count = n,
               !.is_active = IF n >= FailureThreshold THEN FALSE ELSE @]

\* variant: the reset also reactivates the source
reset_failed_attempts_reactivating(ds) ==
    [ds EXCEPT !.failed_attempt_count = 0, !.is_active = TRUE]

reset_failed_attempts(ds) == [ds EXCEPT !.failed_attempt_count = 0]

\* CrawledContent(data_source=id) with the defaults of its fields
NewCrawledContent(id, t) ==
    [data_source |-> id, extracted_content |-> "", content_hash |-> "",
     parsed_json |-> JEmptyDict, processing_status |-> "pending",
     error_message |-> <<>>, crawled_at |-> t, sync_timestamps |-> <<>>]

----------------------------------------------------------------------------
(* banks/validators/credit_card_validator.py *)

RECURSIVE LStrip(_)
\* str.lstrip()
LStrip(s) == IF s # <<>> /\ Head(s) = " " THEN LStrip(Tail(s)) ELSE s

RECURSIVE RStrip(_)
\* str.rstrip()
RStrip(s) ==
    IF s # <<>> /\ s[Len(s)] = " " THEN RStrip(SubSeq(s, 1, Len(s) - 1)) ELSE s

\* str.strip()
Strip(s) == RStrip(LStrip(s))

\* _normalize_data_for_validation: the list of cards to validate; the empty
\* list when an error was appended instead.  A dict of the model that is not
\* a card list is taken as one card, which then has no name.
_normalize_data_for_validation(data) ==
    CASE data.t = "list" -> data.cards
      [] data.t \in {"error_dict", "empty_dict"} -> <<[name |-> <<>>, annual_fee |-> 0]>>
      [] OTHER -> <<>>

\* _validate_single_card: TRUE when the card has no validation error
_validate_single_card(card) ==
    /\ Strip(card.name) # <<>>
    /\ card.annual_fee >= 0
    /\ card.annual_fee <= 100000

\* validate_credit_card_data: its is_valid result
validate_credit_card_data(data) ==
    LET cards_data == _normalize_data_for_validation(data) IN
    /\ cards_data # <<>>
    /\ \A i \in 1..Len(cards_data) : _validate_single_card(cards_data[i])

_sanitize_single_card(card) ==
    [name |-> Strip(card.name),
     annual_fee |-> IF card.annual_fee < 0 THEN 0 ELSE card.annual_fee]

\* sanitize_credit_card_data on the shapes that pass validation
sanitize_credit_card_data(data) ==
    IF data.t = "list"
    THEN JList([i \in 1..Len(data.cards) |-> _sanitize_single_card(data.cards[i])])
    ELSE data

----------------------------------------------------------------------------
(* banks/services/llm_parser.py *)

\* _validate_and_sanitize_data
_validate_and_sanitize_data(parsed_data) ==
    IF ~validate_credit_card_data(parsed_data)
    THEN JWrapper(parsed_data)
    ELSE sanitize_credit_card_data(parsed_data)

\* The environment of one parse: configured, whether the Gemini library is
\* installed and GEMINI_API_KEY is set; openrouter, whether OPENROUTER_API_KEY
\* is set and the openai library is installed; and what the LLM that is asked
\* answers ("failure" is a provider error or a non-JSON answer).
NoParse ==
    [configured |-> FALSE, openrouter |-> FALSE, answer |-> "failure",
     json |-> JEmptyDict]

\* only OpenRouter is configured, and it would answer with a card
OpenRouterOnly ==
    [configured |-> FALSE, openrouter |-> TRUE, answer |-> "json",
     json |-> JList(<<GoldCard>>)]

ParserEnvs ==
    {NoParse, OpenRouterOnly}
    \cup {[configured |-> TRUE, openrouter |-> o, answer |-> "failure",
           json |-> JEmptyDict] : o \in BOOLEAN}
    \cup {[configured |-> TRUE, openrouter |-> FALSE, answer |-> "json", json |-> j] :
            j \in LLMJson}
    \cup {[configured |-> TRUE, openrouter |-> TRUE, answer |-> "json",
           json |-> JList(<<GoldCard>>)]}

\* _validate_configuration: TRUE when it returns, FALSE when it raises
\* ConfigurationError
_validate_configuration(env) == env.configured

\* parse_credit_card_data: [exc, structured_data]
parse_credit_card_data(env) ==
    IF ~_validate_configuration(env)
    THEN [exc |-> "ConfigurationError", structured_data |-> JEmptyDict]
    ELSE IF env.answer = "failure"
    THEN [exc |-> "AIParsingError", structured_data |-> JEmptyDict]
    ELSE [exc |-> "", structured_data |-> _validate_and_sanitize_data(env.json)]

\* parse_comprehensive_data: [exc, structured_data]; a failure of its second,
\* comprehensive request is a "failure" answer
parse_comprehensive_data(env) ==
    IF ~_validate_configuration(env)
    THEN [exc |-> "ConfigurationError", structured_data |-> JEmptyDict]
    ELSE parse_credit_card_data(env)

----------------------------------------------------------------------------
(* banks/services/credit_card_data_service.py *)

\* f"Credit Card (Annual Fee: {annual_fee})", the literal parts and the
\* formatted fee as one element each
FallbackName(annual_fee) ==
    <<"Credit Card (Annual Fee: ", ToString(annual_fee), ")">>

\* str.startswith(prefix)
StartsWith(s, prefix) ==
    Len(s) >= Len(prefix) /\ SubSeq(s, 1, Len(prefix)) = prefix

\* str.replace(ch, "")
Remove(s, ch) == SelectSeq(s, LAMBDA c : c # ch)

Digits == {"0", "1", "2", "3", "4", "5", "6", "7", "8", "9"}

\* str.isdigit()
IsDigit(s) == s # <<>> /\ \A i \in 1..Len(s) : s[i] \in Digits

\* startswith("TK.") or startswith("US$") or
\* replace(",", "").replace(".", "").isdigit()
LooksLikeAmount(s) ==
    \/ StartsWith(s, <<"T", "K", ".">>)
    \/ StartsWith(s, <<"U", "S", "$">>)
    \/ IsDigit(Remove(Remove(s, ","), "."))

\* dict.get(key, default)
Get(d, key, default) == IF key \in DOMAIN d THEN d[key] ELSE default

\* the fields of a CreditCard at their model defaults (credit_cards/models.py);
\* None is the string "None", a list a sequence
NewCreditCard ==
    [annual_fee |-> 0, interest_rate_apr |-> 0,
     annual_fee_waiver_policy |-> "None",
     lounge_access_international |-> "", lounge_access_domestic |-> "",
     lounge_access_condition |-> "", cash_advance_fee |-> "",
     late_payment_fee |-> "", reward_points_policy |-> "",
     additional_features |-> <<>>, is_active |-> TRUE]

\* float(value) of a number
_parse_decimal(value) == value

\* _prepare_card_defaults
_prepare_card_defaults(card_data) ==
    [annual_fee |-> _parse_decimal(Get(card_data, "annual_fee", 0)),
     interest_rate_apr |-> _parse_decimal(Get(card_data, "interest_rate_apr", 0)),
     lounge_access_international |-> Get(card_data, "lounge_access_international", ""),
     lounge_access_domestic |-> Get(card_data, "lounge_access_domestic", ""),
     cash_advance_fee |-> Get(card_data, "cash_advance_fee", ""),
     late_payment_fee |-> Get(card_data, "late_payment_fee", ""),
     annual_fee_waiver_policy |-> Get(card_data, "annual_fee_waiver_policy", "None"),
     reward_points_policy |-> Get(card_data, "reward_points_policy", ""),
     additional_features |-> Get(card_data, "additional_features", <<>>),
     is_active |-> TRUE]

\* CreditCard.objects.update_or_create(bank_id=, name=, defaults=): the row
\* with this (bank_id, name) gets the values of defaults and keeps its other
\* fields; without such a row one is created from defaults and the model
\* defaults
update_or_create(cs, bank_id, name, defaults) ==
    IF \E c \in cs : c.bank_id = bank_id /\ c.name = name
    THEN {IF c.bank_id = bank_id /\ c.name = name THEN defaults @@ c ELSE c :
            c \in cs}
    ELSE cs \cup {defaults @@ [bank_id |-> bank_id, name |-> name] @@ NewCreditCard}

\* the name _update_single_card stores a card under
CleanedName(card_data) ==
    LET card_name == Strip(Get(card_data, "name", <<>>)) IN
    IF card_name = <<>> \/ LooksLikeAmount(card_name)
    THEN FallbackName(Get(card_data, "annual_fee", 0))
    ELSE card_name

\* _update_single_card with objects.create in place of update_or_create
_update_single_card_creating(cs, bank_id, card_data) ==
    cs \cup {_prepare_card_defaults(card_data)
             @@ [bank_id |-> bank_id, name |-> CleanedName(card_data)]
             @@ NewCreditCard}

\* _update_single_card without a persistence exception: update_or_create on
\* (bank_id, name)
_update_single_card(cs, bank_id, card_data) ==
    update_or_create(cs, bank_id, CleanedName(card_data),
                     _prepare_card_defaults(card_data))

\* _normalize_parsed_data: [none, list]; none is a None result
_normalize_parsed_data(parsed_data) ==
    CASE parsed_data.t = "list" -> [none |-> FALSE, list |-> parsed_data.cards]
      [] parsed_data.t = "credit_cards_null" -> [none |-> TRUE, list |-> <<>>]
      [] OTHER -> [none |-> FALSE, list |-> <<>>]

RECURSIVE UpsertFrom(_, _, _, _, _)
\* the loop of update_credit_card_data from card i on; the upserts of the
\* cards in failing raise and are skipped by the except clause of the loop
UpsertFrom(cs, bank_id, list, failing, i) ==
    IF i > Len(list) THEN cs
    ELSE UpsertFrom(IF i \in failing THEN cs
                    ELSE _update_single_card(cs, bank_id, list[i]),
                    bank_id, list, failing, i + 1)

\* update_credit_card_data: [exc, cards, raised]; exc is the exception that
\* leaves the method, raised the number of upserts that raised inside it
update_credit_card_data(cs, bank_id, parsed_data, failing) ==
    LET normalized_data == _normalize_parsed_data(parsed_data) IN
    IF normalized_data.none
    THEN [exc |-> <<"object of type 'NoneType' has no len()">>, cards |-> cs,
          raised |-> 0]
    ELSE [exc |-> <<>>,
          cards |-> UpsertFrom(cs, bank_id, normalized_data.list, failing, 1),
          raised |-> Cardinality(failing \cap (1..Len(normalized_data.list)))]

----------------------------------------------------------------------------
(* banks/services/content_extractor.py: what extract_content can do *)

ExtractOutcomes ==
    {[exc |-> e, text |-> ""] :
        e \in {"NetworkError", "Exception"}}
    \cup {[exc |-> "", text |-> x] : x \in Texts \cup {""}}

\* e.message of a typed extraction error, str(e) of another exception
ExtractionMessage(exc) ==
    CASE exc = "NetworkError" -> <<"Timeout while fetching ", "url">>
      [] exc = "FileFormatError" -> <<"Unable to detect content type for ", "url">>
      [] exc = "ContentExtractionError" -> <<"URL not found: ", "url">>
      [] OTHER -> <<"Extraction failed">>

----------------------------------------------------------------------------
(* banks/services/bank_data_crawler.py *)
(* A world w is [sources, records, cards]: the three tables.  A source is  *)
(* loaded and saved within one crawl, so its in-memory copy is its row.    *)

Max(S) == CHOOSE x \in S : \A y \in S : y <= x

\* hashlib.sha256(content.encode("utf-8")).hexdigest(): no two texts of the
\* model collide
_generate_content_hash(content) ==
    CASE content = "t1" -> "sha256-of-t1"
      [] content = "t2" -> "sha256-of-t2"
      [] OTHER -> "sha256-of-other"

\* variant: the source is looked up by id alone
_get_data_source_any(w, data_source_id) ==
    data_source_id \in DOMAIN w.sources

\* BankDataSource.objects.get(id=data_source_id, is_active=True): TRUE when
\* it returns a row, FALSE when it raises DoesNotExist
_get_data_source(w, data_source_id) ==
    /\ data_source_id \in DOMAIN w.sources
    /\ w.sources[data_source_id].is_active

_update_crawl_timestamp(ds, t) == [ds EXCEPT !.last_crawled_at = t]

_create_failed_crawl_record(recs, id, error_message, t) ==
    Append(recs, [NewCrawledContent(id, t) EXCEPT
                     !.processing_status = "failed",
                     !.error_message = error_message])

\* rows of the source in status completed, as positions in creation order
CompletedRows(recs, id) ==
    {i \in 1..Len(recs) : /\ recs[i].data_source = id
                          /\ recs[i].processing_status = "completed"}

\* variant: any completed row of the source carrying content_hash is enough
_should_skip_processing_any(recs, id, content_hash) ==
    \E i \in CompletedRows(recs, id) : recs[i].content_hash = content_hash

\* the comparison of _should_skip_processing: the most recent completed row
\* of the source carries content_hash
_should_skip_processing(recs, id, content_hash) ==
    LET rows == CompletedRows(recs, id) IN
    /\ rows # {}
    /\ recs[Max(rows)].content_hash = content_hash

\* variant: the unchanged crawl is stored as a row of its own
_record_no_changes_new_row(w, id, content_hash, t) ==
    [w EXCEPT !.sources[id].last_successful_crawl_at = t,
              !.records = Append(@, [NewCrawledContent(id, t) EXCEPT
                  !.content_hash = content_hash,
                  !.parsed_json = JInfo,
                  !.processing_status = "completed",
                  !.sync_timestamps = <<t>>])]

_record_no_changes(w, id, content_hash, t) ==
    LET rows == {i \in CompletedRows(w.records, id) :
                    w.records[i].content_hash = content_hash}
        srcs == [w.sources EXCEPT ![id].last_successful_crawl_at = t]
    IN IF rows # {}
       THEN [w EXCEPT !.sources = srcs,
                      !.records[Max(rows)].sync_timestamps = Append(@, t)]
       ELSE [w EXCEPT !.sources = srcs,
                      !.records = Append(@, [NewCrawledContent(id, t) EXCEPT
                          !.content_hash = content_hash,
                          !.parsed_json = JInfo,
                          !.processing_status = "completed",
                          !.sync_timestamps = <<t>>])]

_create_crawl_record(recs, id, extracted_content, content_hash, parsed_data, t) ==
    Append(recs, [NewCrawledContent(id, t) EXCEPT
                     !.extracted_content = extracted_content,
                     !.content_hash = content_hash,
                     !.parsed_json = parsed_data,
                     !.processing_status = "processing"])

\* the data under "data" when the parse result carries validation_errors
_extract_actual_data(parsed_data) ==
    IF parsed_data.t = "validation_errors"
    THEN [t |-> parsed_data.inner, inner |-> "", cards |-> parsed_data.cards,
          error |-> parsed_data.error]
    ELSE parsed_data

\* variant: the completed row drops the text it was parsed from
_record_successful_update_dropping_text(w, id, row, t) ==
    [w EXCEPT !.records[row].processing_status = "completed",
              !.records[row].extracted_content = "",
              !.sources[id] = [reset_failed_attempts(@) EXCEPT
                                  !.last_successful_crawl_at = t]]

_record_successful_update(w, id, row, t) ==
    [w EXCEPT !.records[row].processing_status = "completed",
              !.sources[id] = [reset_failed_attempts(@) EXCEPT
                                  !.last_successful_crawl_at = t]]

_record_parsing_failure(w, id, row, actual_data) ==
    LET error_msg == IF ~Truthy(actual_data) THEN <<"No data parsed">>
                     ELSE IF actual_data.t = "error_dict" THEN actual_data.error
                     ELSE <<"Failed to parse data">>
    IN [w EXCEPT !.records[row].processing_status = "failed",
                 !.records[row].error_message = error_msg,
                 !.sources[id] = increment_failed_attempts(@)]

_record_database_failure(w, id, row, error) ==
    [w EXCEPT !.records[row].processing_status = "failed",
              !.records[row].error_message = <<"Database update failed: ">> \o error,
              !.sources[id] = increment_failed_attempts(@)]

\* variant: the failure is counted by the handler and once more by its caller
_record_unexpected_error_counting_twice(w, data_source_id, error, t) ==
    IF data_source_id \in DOMAIN w.sources
    THEN [w EXCEPT !.sources[data_source_id] =
                       increment_failed_attempts(increment_failed_attempts(@)),
                   !.records = _create_failed_crawl_record(
                                   @, data_source_id, <<"Unexpected error: ">> \o error, t)]
    ELSE w

_record_unexpected_error(w, data_source_id, error, t) ==
    IF data_source_id \in DOMAIN w.sources
    THEN [w EXCEPT !.sources[data_source_id] = increment_failed_attempts(@),
                   !.records = _create_failed_crawl_record(
                                   @, data_source_id, <<"Unexpected error: ">> \o error, t)]
    ELSE w

\* What one call of crawl_bank_data_source did: the tables after it, its
\* return value, the calls of parse_comprehensive_data it made, the exception
\* the parser raised, the upserts that raised, the unexpected exception that
\* reached the outer except clause.
Outcome(w, ret, parser_calls, parser_exc, upsert_raised, unexpected) ==
    [w |-> w, ret |-> ret, parser_calls |-> parser_calls, parser_exc |-> parser_exc,
     upsert_raised |-> upsert_raised, unexpected |-> unexpected,
     extract_calls |-> 1]

\* _update_database_safely on the row just created; an exception that leaves
\* it is in unexpected
_update_database_safely(w, id, parsed_data, row, failing, t) ==
    LET actual_data == _extract_actual_data(parsed_data) IN
    IF ~Truthy(actual_data)
    THEN Outcome(_record_parsing_failure(w, id, row, actual_data), FALSE, 1, "", 0, <<>>)
    ELSE IF actual_data.t = "scalar"
    THEN Outcome(w, FALSE, 1, "", 0, <<"argument of type 'int' is not iterable">>)
    ELSE IF actual_data.t = "error_dict"
    THEN Outcome(_record_parsing_failure(w, id, row, actual_data), FALSE, 1, "", 0, <<>>)
    ELSE LET u == update_credit_card_data(w.cards, BankOf(id), actual_data, failing) IN
         IF u.exc # <<>>
         THEN Outcome(_record_database_failure(w, id, row, u.exc), FALSE, 1, "", u.raised, <<>>)
         ELSE Outcome(_record_successful_update([w EXCEPT !.cards = u.cards], id, row, t),
                      TRUE, 1, "", u.raised, <<>>)

\* variant: every parser exception counts as a failed attempt
_parse_content_safely_counting(w, id, env) ==
    LET p == parse_comprehensive_data(env) IN
    [w |-> IF p.exc # ""
           THEN [w EXCEPT !.sources[id] = increment_failed_attempts(@)]
           ELSE w,
     exc |-> p.exc, structured_data |-> p.structured_data]

\* _parse_content_safely: [w, exc, structured_data]; exc names the
\* exception that made it return None
_parse_content_safely(w, id, env) ==
    LET p == parse_comprehensive_data(env) IN
    [w |-> IF p.exc # "" /\ p.exc # "ConfigurationError"
           THEN [w EXCEPT !.sources[id] = increment_failed_attempts(@)]
           ELSE w,
     exc |-> p.exc, structured_data |-> p.structured_data]

_process_changed_content(w, id, extracted_content, content_hash, env, failing, t) ==
    LET parsing_result == _parse_content_safely(w, id, env) IN
    IF parsing_result.exc # ""
    THEN Outcome(parsing_result.w, FALSE, 1, parsing_result.exc, 0, <<>>)
    ELSE LET w1 == [parsing_result.w EXCEPT !.records = _create_crawl_record(
                        @, id, extracted_content, content_hash,
                        parsing_result.structured_data, t)]
         IN _update_database_safely(w1, id, parsing_result.structured_data,
                                    Len(w1.records), failing, t)

\* the try block of crawl_bank_data_source for a source that is loaded
CrawlLoaded(w, id, ext, env, failing, t) ==
    LET w1 == [w EXCEPT !.sources[id] = _update_crawl_timestamp(@, t)] IN
    IF ext.exc = "Exception"
    THEN Outcome(w1, FALSE, 0, "", 0, ExtractionMessage(ext.exc))
    ELSE IF ext.exc # ""
    THEN Outcome([w1 EXCEPT !.sources[id] = increment_failed_attempts(@),
                            !.records = _create_failed_crawl_record(
                                            @, id, ExtractionMessage(ext.exc), t)],
                 FALSE, 0, "", 0, <<>>)
    ELSE IF ext.text = ""
    THEN Outcome(w1, FALSE, 0, "", 0, <<>>)
    ELSE LET content_hash == _generate_content_hash(ext.text) IN
         IF _should_skip_processing(w1.records, id, content_hash)
         THEN Outcome(_record_no_changes(w1, id, content_hash, t), TRUE, 0, "", 0, <<>>)
         ELSE _process_changed_content(w1, id, ext.text, content_hash, env, failing, t)

\* crawl_bank_data_source(data_source_id) as a function of the tables and of
\* what the extractor, the parser and the database do during the call
Crawl(w, id, ext, env, failing, t) ==
    IF ~_get_data_source(w, id)
    THEN [Outcome(w, FALSE, 0, "", 0, <<>>) EXCEPT !.extract_calls = 0]
    ELSE LET r == CrawlLoaded(w, id, ext, env, failing, t) IN
         IF r.unexpected # <<>>
         THEN [r EXCEPT !.w = _record_unexpected_error(r.w, id, r.unexpected, t)]
         ELSE r

RECURSIVE InIdOrder(_)
\* the ids of S as the queryset yields them (one fixed order: ascending id)
InIdOrder(S) ==
    IF S = {} THEN <<>>
    ELSE LET m == CHOOSE x \in S : \A y \in S : x <= y
         IN <<m>> \o InIdOrder(S \ {m})

RECURSIVE CrawlEach(_, _, _, _, _)
\* the for loop of crawl_all_active_sources over the rows in ids; inputs[id]
\* is what the extractor, the parser and the database do in the crawl of id
CrawlEach(b, ids, inputs, t, i) ==
    IF i > Len(ids) THEN b
    ELSE LET id == ids[i]
             r == Crawl(b.w, id, inputs[id].ext, inputs[id].env, inputs[id].failing, t)
         IN CrawlEach([b EXCEPT !.w = r.w,
                                !.crawled = Append(@, id),
                                !.successful = IF r.ret THEN @ + 1 ELSE @,
                                !.failed = IF r.ret THEN @ ELSE @ + 1],
                      ids, inputs, t, i + 1)

\* variant: the batch goes over every row of BankDataSource
crawl_all_active_sources_every(w, inputs, t) ==
    LET ids == InIdOrder(DOMAIN w.sources) IN
    CrawlEach([w |-> w, crawled |-> <<>>, total |-> Len(ids),
               successful |-> 0, failed |-> 0], ids, inputs, t, 1)

\* crawl_all_active_sources: [w, crawled, total, successful, failed]; crawled
\* lists the ids crawl_bank_data_source was called with, in call order
crawl_all_active_sources(w, inputs, t) ==
    LET active_sources == {id \in DOMAIN w.sources : w.sources[id].is_active}
        ids == InIdOrder(active_sources)
    IN CrawlEach([w |-> w, crawled |-> <<>>, total |-> Cardinality(active_sources),
                  successful |-> 0, failed |-> 0], ids, inputs, t, 1)

\* cleanup_old_crawled_content: the rows that stay
cleanup_old_crawled_content(recs, days_to_keep, t) ==
    LET cutoff_date == t - days_to_keep IN
    SelectSeq(recs, LAMBDA r : ~(r.crawled_at < cutoff_date))

----------------------------------------------------------------------------
(* common/llm/services.py: LLMOrchestrator                                  *)
(* An orchestrator state o is the frame of one generate_response call:      *)
(* order[p] is the provider of the outer loop, attempt the counter of the   *)
(* inner loop; attempts is the list of attempt keys <<provider, number>>,   *)
(* errors the dict of the call as its entries [key, error] in insertion     *)
(* order, calls the providers whose generate_response was called.           *)

\* self.provider_order, and the insertion order of self.providers
ProviderOrder == <<"openrouter", "gemini">>

\* values of preferred_provider: None, a provider, a name that is none
PreferredProviders == {"", "openrouter", "gemini", "unknown"}

\* what one call of provider.generate_response gives: a text, an empty text
\* or an exception
ProviderResults ==
    {[exc |-> "", response |-> r] : r \in {"text", ""}}
    \cup {[exc |-> e, response |-> ""] :
            e \in {"LLMError", "LLMRateLimitError", "Exception"}}

IdleOrchestrator ==
    [pc |-> "idle", available |-> {}, preferred_provider |-> "", max_retries |-> 0,
     order |-> <<>>, p |-> 1, attempt |-> 0,
     attempts |-> <<>>, errors |-> <<>>, calls |-> <<>>,
     exc |-> "", response |-> "", provider |-> ""]

\* get_available_providers, for the set of providers whose is_available()
\* is True
get_available_providers(available) ==
    SelectSeq(ProviderOrder, LAMBDA name : name \in available)

\* variant: the preferred provider goes first whenever it is a provider
_get_provider_order_forced(available, preferred_provider) ==
    LET available_providers == get_available_providers(available) IN
    IF \E i \in 1..Len(ProviderOrder) : ProviderOrder[i] = preferred_provider
    THEN <<preferred_provider>>
            \o SelectSeq(available_providers, LAMBDA name : name # preferred_provider)
    ELSE available_providers

\* _get_provider_order: the order; it is empty when the method raises
\* LLMConfigurationError
_get_provider_order(available, preferred_provider) ==
    LET available_providers == get_available_providers(available) IN
    IF preferred_provider # ""
       /\ \E i \in 1..Len(available_providers) :
             available_providers[i] = preferred_provider
    THEN <<preferred_provider>>
            \o SelectSeq(available_providers, LAMBDA name : name # preferred_provider)
    ELSE available_providers

\* isinstance(response, str) and len(response.strip()) > 0
validate_response(response) == response # ""

\* variant: a failed attempt is never repeated
_should_retry_provider_error_never(attempt, max_retries) == FALSE

_should_retry_provider_error(attempt, max_retries) == attempt < max_retries

\* _handle_all_providers_failed: AllLLMProvidersFailedError(failures=errors)
_handle_all_providers_failed(o) ==
    [o EXCEPT !.pc = "raised", !.exc = "AllLLMProvidersFailedError"]

\* variant: the call gives up after the first provider that failed
NextProvider_giving_up(o) == _handle_all_providers_failed(o)

\* the provider loop of generate_response after _try_provider_with_retries
\* returned None: the next provider, or _handle_all_providers_failed
NextProvider(o) ==
    IF o.p < Len(o.order)
    THEN [o EXCEPT !.p = @ + 1, !.attempt = 0]
    ELSE _handle_all_providers_failed(o)

\* variant: a rate-limit error is retried like any other LLMError
_try_provider_with_retries_retrying_all(o, result) ==
    LET provider_name == o.order[o.p]
        attempt_key == <<provider_name, o.attempt + 1>>
        o1 == [o EXCEPT !.attempts = Append(@, attempt_key),
                        !.calls = Append(@, provider_name)]
    IN IF result.exc = "" /\ validate_response(result.response)
       THEN [o1 EXCEPT !.pc = "returned", !.response = result.response,
                       !.provider = provider_name]
       ELSE LET e == IF result.exc = "" THEN "LLMError: Invalid response"
                     ELSE result.exc
                o2 == [o1 EXCEPT !.errors = Append(@, [key |-> attempt_key, error |-> e])]
            IN IF /\ result.exc \in {"", "LLMError", "LLMRateLimitError"}
                  /\ _should_retry_provider_error(o.attempt, o.max_retries)
                  /\ o.attempt + 1 < o.max_retries + 1
               THEN [o2 EXCEPT !.attempt = @ + 1]
               ELSE NextProvider(o2)

\* variant: a rate-limit error ends the attempts on the provider without an
\* entry in errors
_try_provider_with_retries_dropping_rate_limit(o, result) ==
    LET provider_name == o.order[o.p]
        attempt_key == <<provider_name, o.attempt + 1>>
        o1 == [o EXCEPT !.attempts = Append(@, attempt_key),
                        !.calls = Append(@, provider_name)]
    IN IF result.exc = "" /\ validate_response(result.response)
       THEN [o1 EXCEPT !.pc = "returned", !.response = result.response,
                       !.provider = provider_name]
       ELSE IF result.exc = "LLMRateLimitError"
       THEN NextProvider(o1)
       ELSE LET e == IF result.exc = "" THEN "LLMError: Invalid response"
                     ELSE result.exc
                o2 == [o1 EXCEPT !.errors = Append(@, [key |-> attempt_key, error |-> e])]
            IN IF /\ result.exc \in {"", "LLMError"}
                  /\ _should_retry_provider_error(o.attempt, o.max_retries)
                  /\ o.attempt + 1 < o.max_retries + 1
               THEN [o2 EXCEPT !.attempt = @ + 1]
               ELSE NextProvider(o2)

\* one iteration of the for loop of _try_provider_with_retries, result being
\* what provider.generate_response gives in it, and the step of
\* generate_response that follows when the loop ends
_try_provider_with_retries(o, result) ==
    LET provider_name == o.order[o.p]
        attempt_key == <<provider_name, o.attempt + 1>>
        o1 == [o EXCEPT !.attempts = Append(@, attempt_key),
                        !.calls = Append(@, provider_name)]
    IN IF result.exc = "" /\ validate_response(result.response)
       THEN [o1 EXCEPT !.pc = "returned", !.response = result.response,
                       !.provider = provider_name]
       ELSE LET e == IF result.exc = "" THEN "LLMError: Invalid response"
                     ELSE result.exc
                o2 == [o1 EXCEPT !.errors = Append(@, [key |-> attempt_key, error |-> e])]
            IN IF /\ result.exc \in {"", "LLMError"}
                  /\ _should_retry_provider_error(o.attempt, o.max_retries)
                  /\ o.attempt + 1 < o.max_retries + 1
               THEN [o2 EXCEPT !.attempt = @ + 1]
               ELSE NextProvider(o2)

\* generate_response up to its first provider call
generate_response(available, preferred_provider, max_retries) ==
    LET provider_order == _get_provider_order(available, preferred_provider)
        o == [IdleOrchestrator EXCEPT !.available = available,
                                      !.preferred_provider = preferred_provider,
                                      !.max_retries = max_retries,
                                      !.order = provider_order]
    IN IF provider_order = <<>>
       THEN [o EXCEPT !.pc = "raised", !.exc = "LLMConfigurationError"]
       ELSE [o EXCEPT !.pc = "running"]

----------------------------------------------------------------------------
(* banks/services/schedule_charge_finder.py                                 *)
(* A page is the list of its anchors [href, text] in page order; a fetch is *)
(* [exc, anchors]: the page, or the exception of session.get or             *)
(* raise_for_status.                                                        *)

NetworkFailure == [exc |-> "Connection failed", anchors |-> <<>>]

BaseUrl == "http://bank.example"

Home == [href |-> "/home", text |-> "Home"]
Tariff == [href |-> "/tariff.pdf", text |-> "Tariff"]
Charges == [href |-> "/charges", text |-> "Schedule of Charges"]
\* an anchor around an image: it has no text
Logo == [href |-> "/pricing", text |-> ""]

\* a page whose only anchor to the schedule of charges comes after
\* LinksLimit others
LongPage == [i \in 1..(LinksLimit + 1) |-> IF i <= LinksLimit THEN Home ELSE Tariff]

Pages ==
    { <<>>, <<Home>>, <<Home, Tariff>>, <<Charges, Tariff>>, <<Tariff, Charges>>,
      <<Home, Logo>>, LongPage }

Fetches == {NetworkFailure} \cup {[exc |-> "", anchors |-> page] : page \in Pages}

charge_patterns ==
    <<"schedule.*charge", "fee.*schedule", "charges.*fee", "pricing", "tariff",
      "service.*charge">>

\* re.search(pattern, string.lower()) on the strings of the pages
Search(pattern, string) ==
    \/ pattern = "tariff" /\ string \in {"Tariff", "http://bank.example/tariff.pdf"}
    \/ pattern = "schedule.*charge" /\ string = "Schedule of Charges"
    \/ pattern = "pricing" /\ string = "http://bank.example/pricing"

\* urljoin(url, href) for the relative hrefs of the pages
urljoin(url, href) ==
    CASE href = "/home" -> "http://bank.example/home"
      [] href = "/tariff.pdf" -> "http://bank.example/tariff.pdf"
      [] href = "/charges" -> "http://bank.example/charges"
      [] href = "/pricing" -> "http://bank.example/pricing"
      [] OTHER -> url

\* str.endswith(".pdf")
EndsWithPdf(url) == url = "http://bank.example/tariff.pdf"

\* every anchor of the page that was fetched, as a link
AllAnchors(url, fetch) ==
    [i \in 1..Len(fetch.anchors) |->
        [url |-> urljoin(url, fetch.anchors[i].href), text |-> fetch.anchors[i].text]]

\* _fetch_webpage_content: [exc, error, links]; links are the anchors with an
\* href and a text, the first LinksLimit of them
_fetch_webpage_content(url, fetch) ==
    IF fetch.exc # ""
    THEN [exc |-> "NetworkError", error |-> <<"Failed to fetch webpage: ", fetch.exc>>,
          links |-> <<>>]
    ELSE LET anchors == SelectSeq(fetch.anchors, LAMBDA a : a.href # "" /\ a.text # "")
             links == [i \in 1..Len(anchors) |->
                          [url |-> urljoin(url, anchors[i].href),
                           text |-> anchors[i].text]]
         IN [exc |-> "", error |-> <<>>,
             links |-> SubSeq(links, 1, IF Len(links) < LinksLimit THEN Len(links)
                                        ELSE LinksLimit)]

\* the result dicts of the finder; a key the dict does not have is ""
FinderResult(found, url, method, error) ==
    [found |-> found, url |-> url, method |-> method, error |-> error,
     content_type |-> IF ~found THEN "" ELSE IF EndsWithPdf(url) THEN "PDF"
                      ELSE "WEBPAGE"]

\* the positions of links whose text or url one of charge_patterns is found in
MatchingLinks(links) ==
    {i \in 1..Len(links) :
        \E n \in 1..Len(charge_patterns) :
            \/ Search(charge_patterns[n], links[i].text)
            \/ Search(charge_patterns[n], links[i].url)}

\* the two loops of _fallback_pattern_search over links
PatternSearch(links) ==
    LET found == MatchingLinks(links) IN
    IF found # {}
    THEN FinderResult(TRUE, links[CHOOSE i \in found : \A j \in found : i <= j].url,
                      "pattern_matching", <<>>)
    ELSE FinderResult(FALSE, "", "pattern_matching", <<"No matching patterns found">>)

\* _fallback_pattern_search, which fetches the page itself
_fallback_pattern_search(base_url, fetch) ==
    LET content_data == _fetch_webpage_content(base_url, fetch) IN
    IF content_data.exc # ""
    THEN FinderResult(FALSE, "", "pattern_matching", content_data.error)
    ELSE PatternSearch(content_data.links)

\* what orchestrator.generate_response and _parse_llm_response give: an
\* exception, or the parsed answer
LLMAnswers ==
    { [exc |-> "AllLLMProvidersFailedError", found |-> FALSE, url |-> ""],
      [exc |-> "Exception", found |-> FALSE, url |-> ""],
      [exc |-> "", found |-> TRUE, url |-> "http://bank.example/tariff.pdf"],
      [exc |-> "", found |-> FALSE, url |-> ""] }

\* _analyze_with_llm; next_fetch is what the fetch of its fallback gives
_analyze_with_llm(base_url, llm, next_fetch) ==
    IF llm.exc = "" /\ llm.found /\ llm.url # ""
    THEN FinderResult(TRUE, llm.url, "llm_analysis", <<>>)
    ELSE _fallback_pattern_search(base_url, next_fetch)

\* find_schedule_charge_url: its result dict.  fetches are what the fetches of
\* base_url give, in the order they are made.
find_schedule_charge_url(base_url, available, fetches, llm) ==
    IF ~available
    THEN _fallback_pattern_search(base_url, fetches[1])
    ELSE LET content_data == _fetch_webpage_content(base_url, fetches[1]) IN
         IF content_data.exc # ""
         THEN FinderResult(FALSE, "", "error", content_data.error)
         ELSE _analyze_with_llm(base_url, llm, fetches[2])

----------------------------------------------------------------------------
(* The state machine *)

World == [sources |-> sources, records |-> records, cards |-> cards]

\* the Celery workers that run crawl_bank_data_source tasks at the same time
Workers == {1, 2}

\* the frame of one crawl_bank_data_source call: pc is where the call is,
\* data_source the BankDataSource instance it loaded, ext and env what the
\* extractor and the parser do for it, list the cards of its upsert loop and
\* i the loop's position, row its CrawledContent row, ret its return value
IdleCrawl ==
    [pc |-> "idle", id |-> 0, data_source |-> NewDataSource,
     ext |-> [exc |-> "", text |-> ""], env |-> NoParse,
     list |-> <<>>, i |-> 0, row |-> 0, ret |-> FALSE]

\* no crawl in flight.  The history of the crawls: base is the tables when
\* the first of the crawls that overlap began, begun how many began since and
\* started how many began at all;
\* count0 is failed_attempt_count at the start, counted[id] the crawls of id
\* that ended in a counted failure, and reset the sources whose counter was
\* reset, deactivated those an operator deactivated.
NoCrawls ==
    [frames |-> [p \in Workers |-> IdleCrawl],
     base |-> [sources |-> <<>>, records |-> <<>>, cards |-> {}],
     begun |-> 0, started |-> 0,
     count0 |-> <<0, 0>>, counted |-> <<0, 0>>, reset |-> {},
     deactivated |-> {}]

\* the Celery task crawl_bank_data_source: no task has been sent.  state is
\* where the task is, retries is self.request.retries of the execution,
\* countdown the delay of the pending retry, executions the runs of the task
\* body so far, outcome what the crawl service did in the latest run ("True",
\* "False" or "raised"), result what the task returned
IdleTask ==
    [state |-> "idle", data_source_id |-> 0, retries |-> 0, countdown |-> 0,
     executions |-> 0, outcome |-> "", result |-> [status |-> ""]]

\* call is the latest call of one of the functions that depend on their
\* arguments only: its function, its arguments and what it returned or raised
NoResult == [op |-> "none", args |-> <<>>, result |-> <<>>]

\* last is what the most recent call of crawl_bank_data_source got and gave
\* (parser_calls counts the calls of parse_comprehensive_data, configured and
\* openrouter are the configuration such a call ran with), or what the
\* most recent call of crawl_all_active_sources did and returned, while no
\* other operation has run since: NoCall otherwise
NoCall ==
    [op |-> "none", id |-> 0, ret |-> FALSE, ext |-> [exc |-> "", text |-> ""],
     parser_calls |-> 0, parser_exc |-> "", upsert_raised |-> 0,
     extract_calls |-> 0, configured |-> FALSE, openrouter |-> FALSE,
     overwritten |-> 0, parsed |-> <<>>,
     crawled |-> <<>>, total |-> 0, successful |-> 0, failed |-> 0]

Init ==
    /\ sources = [id \in DataSourceIds |-> NewDataSource]
    /\ records = <<>>
    /\ cards = {}
    /\ now = 0
    /\ last = NoCall
    /\ orch = IdleOrchestrator
    /\ crawls = NoCrawls
    /\ task = IdleTask
    /\ call = NoResult

Bounded(w) ==
    /\ Len(w.records) <= MaxRecords
    /\ \A i \in 1..Len(w.records) : Len(w.records[i].sync_timestamps) <= MaxSyncs
    /\ \A id \in DOMAIN w.sources : w.sources[id].failed_attempt_count <= MaxFailed

\* the upserts that raise a persistence exception during one crawl
DbFailures == {{}, {1}}

CrawlBankDataSource(id, ext, env, failing) ==
    LET r == Crawl(World, id, ext, env, failing, now) IN
    /\ (ext.text = "" \/ id = UnknownId) => (env = NoParse /\ failing = {})
    /\ failing # {} => (env.answer = "json" /\ env.json.t = "list" /\ env.json.cards # <<>>)
    /\ Bounded(r.w)
    /\ sources' = r.w.sources
    /\ records' = r.w.records
    /\ cards' = r.w.cards
    /\ last' = [NoCall EXCEPT !.op = "crawl", !.id = id, !.ret = r.ret, !.ext = ext,
                              !.parser_calls = r.parser_calls,
                              !.parser_exc = r.parser_exc,
                              !.upsert_raised = r.upsert_raised,
                              !.extract_calls = r.extract_calls,
                              !.configured = r.parser_calls > 0 /\ env.configured,
                              !.openrouter = r.parser_calls > 0 /\ env.openrouter,
                              !.overwritten = Cardinality(cards \ r.w.cards)]
    /\ UNCHANGED <<now, orch, crawls, task, call>>

IncrementFailedAttempts(id) ==
    /\ sources[id].failed_attempt_count < MaxFailed
    /\ sources' = [sources EXCEPT ![id] = increment_failed_attempts(@)]
    /\ last' = NoCall
    /\ UNCHANGED <<records, cards, now, orch, crawls, task, call>>

ResetFailedAttempts(id) ==
    /\ sources' = [sources EXCEPT ![id] = reset_failed_attempts(@)]
    /\ last' = NoCall
    /\ UNCHANGED <<records, cards, now, orch, crawls, task, call>>

CleanupOldCrawledContent(days_to_keep) ==
    /\ records' = cleanup_old_crawled_content(records, days_to_keep, now)
    /\ last' = NoCall
    /\ UNCHANGED <<sources, cards, now, orch, crawls, task, call>>

\* a day passes
Tick ==
    /\ now < MaxTime
    /\ now' = now + 1
    /\ last' = NoCall
    /\ UNCHANGED <<sources, records, cards, orch, crawls, task, call>>

\* Spec: the crawl pipeline and the failure counter, all within one day
Next ==
    \/ \E id \in DataSourceIds \cup {UnknownId}, ext \in ExtractOutcomes,
          env \in ParserEnvs, failing \in DbFailures :
          CrawlBankDataSource(id, ext, env, failing)
    \/ \E id \in DataSourceIds : IncrementFailedAttempts(id)
    \/ \E id \in DataSourceIds : ResetFailedAttempts(id)

Spec == Init /\ [][Next]_vars

\* the text of a remote document that stays the same
RemoteText == "t1"

\* SpecBatch: two sources of one bank, crawled by crawl_all_active_sources
BatchIds == {1, 2}

\* what can happen in the crawl of one source of a batch
BatchInputs ==
    {[ext |-> x, env |-> NoParse, failing |-> {}] :
        x \in {e \in ExtractOutcomes : e.text = ""}}
    \cup {[ext |-> [exc |-> "", text |-> RemoteText], env |-> e, failing |-> {}] :
            e \in {NoParse,
                   [configured |-> TRUE, openrouter |-> FALSE, answer |-> "failure",
                    json |-> JEmptyDict],
                   [configured |-> TRUE, openrouter |-> FALSE, answer |-> "json",
                    json |-> JList(<<GoldCard>>)],
                   [configured |-> TRUE, openrouter |-> FALSE, answer |-> "json",
                    json |-> JScalar]}}

InitBatch ==
    /\ sources = [id \in BatchIds |-> NewDataSource]
    /\ records = <<>>
    /\ cards = {}
    /\ now = 0
    /\ last = NoCall
    /\ orch = IdleOrchestrator
    /\ crawls = NoCrawls
    /\ task = IdleTask
    /\ call = NoResult

CrawlAllActiveSources(inputs) ==
    LET b == crawl_all_active_sources(World, inputs, now) IN
    /\ \A id \in BatchIds :
          ~sources[id].is_active =>
              inputs[id] = [ext |-> [exc |-> "", text |-> ""], env |-> NoParse,
                            failing |-> {}]
    /\ Bounded(b.w)
    /\ sources' = b.w.sources
    /\ records' = b.w.records
    /\ cards' = b.w.cards
    /\ last' = [NoCall EXCEPT !.op = "crawl_all", !.crawled = b.crawled,
                              !.total = b.total, !.successful = b.successful,
                              !.failed = b.failed]
    /\ UNCHANGED <<now, orch, crawls, task, call>>

NextBatch ==
    \/ \E inputs \in [BatchIds -> BatchInputs] : CrawlAllActiveSources(inputs)
    \/ \E id \in BatchIds : ResetFailedAttempts(id)

SpecBatch == InitBatch /\ [][NextBatch]_vars

\* SpecRetention: a source whose remote document stays the same (RemoteText
\* whenever text is extracted from it), crawled over the days while the
\* retention job runs
NextRetention ==
    \/ \E id \in DataSourceIds \cup {UnknownId}, ext \in ExtractOutcomes,
          env \in ParserEnvs, failing \in DbFailures :
          /\ ext.text \in {"", RemoteText}
          /\ CrawlBankDataSource(id, ext, env, failing)
    \/ \E days_to_keep \in DaysToKeep : CleanupOldCrawledContent(days_to_keep)
    \/ Tick

SpecRetention == Init /\ [][NextRetention]_vars

\* SpecLLM: calls of LLMOrchestrator.generate_response, one after the other
GenerateResponse(available, preferred_provider, max_retries) ==
    /\ orch.pc # "running"
    /\ orch' = generate_response(available, preferred_provider, max_retries)
    /\ UNCHANGED <<sources, records, cards, now, last, crawls, task, call>>

\* the running call calls its current provider, which gives result
ProviderCall(result) ==
    /\ orch.pc = "running"
    /\ orch' = _try_provider_with_retries(orch, result)
    /\ UNCHANGED <<sources, records, cards, now, last, crawls, task, call>>

NextLLM ==
    \/ \E available \in SUBSET {ProviderOrder[i] : i \in 1..Len(ProviderOrder)},
          preferred_provider \in PreferredProviders,
          max_retries \in 0..MaxRetries :
          GenerateResponse(available, preferred_provider, max_retries)
    \/ \E result \in ProviderResults : ProviderCall(result)

SpecLLM == Init /\ [][NextLLM]_vars

\* SpecCards: calls of CreditCardDataService.update_credit_card_data for one
\* bank, each with the list of one parsed record
CardNames ==
    { Gold, <<>>, <<" ">>, <<" ", "G", "o", "l", "d", " ">>,
      <<"T", "K", ".", "5">>, <<"U", "S", "$", "5">>, <<"5", ",", "0">>,
      <<"$", "5">> }

\* a record with only a name and an annual fee
BareCard(name) == [name |-> name, annual_fee |-> 150]

\* a record with every field of the prompt's field set
FullCard(name) ==
    [name |-> name, annual_fee |-> 95, interest_rate_apr |-> 22,
     lounge_access_international |-> "2 visits",
     lounge_access_domestic |-> "unlimited",
     lounge_access_condition |-> "with spend",
     cash_advance_fee |-> "2%", late_payment_fee |-> "500",
     annual_fee_waiver_policy |-> "waived on spend",
     reward_points_policy |-> "1 point per 50",
     additional_features |-> <<"insurance">>]

CardRecords ==
    {BareCard(n) : n \in CardNames} \cup {FullCard(n) : n \in CardNames}
    \cup {[annual_fee |-> 150]}

UpdateCreditCardData(bank_id, card_data, failing) ==
    LET u == update_credit_card_data(cards, bank_id, JList(<<card_data>>), failing) IN
    /\ cards' = u.cards
    /\ last' = [NoCall EXCEPT !.op = "update_cards", !.id = bank_id,
                              !.parsed = card_data,
                              !.upsert_raised = u.raised,
                              !.overwritten = Cardinality(cards \ u.cards)]
    /\ UNCHANGED <<sources, records, now, orch, crawls, task, call>>

NextCards ==
    \E card_data \in CardRecords, failing \in DbFailures :
        UpdateCreditCardData(1, card_data, failing)

SpecCards == Init /\ [][NextCards]_vars

\* SpecConcurrent: crawl_bank_data_source tasks of two sources of one bank
\* run by two workers at the same time, while an operator deactivates
\* sources.  A step of a crawl is what it does between two of its waits for
\* the network (the extraction, the LLM) or, in the upsert loop, one
\* update_or_create; each of its saves writes the columns of update_fields
\* from the instance the crawl loaded.
Silver == <<"S", "i", "l", "v", "e", "r">>

\* the cards two documents of the same bank list, with different fees
CardsOfDocument ==
    { <<[name |-> Gold, annual_fee |-> 95], [name |-> Silver, annual_fee |-> 95]>>,
      <<[name |-> Gold, annual_fee |-> 150], [name |-> Silver, annual_fee |-> 150]>> }

ConcurrentExts ==
    {[exc |-> "NetworkError", text |-> ""], [exc |-> "", text |-> RemoteText]}

ConcurrentEnvs ==
    {[configured |-> TRUE, openrouter |-> FALSE, answer |-> "failure",
      json |-> JEmptyDict]}
    \cup {[configured |-> TRUE, openrouter |-> FALSE, answer |-> "json",
           json |-> JList(cs)] : cs \in CardsOfDocument}

\* failed_attempt_count of a source when the crawls start
InitialCounts == {0, 3}

InitConcurrent ==
    \E c \in [BatchIds -> InitialCounts] :
        /\ sources = [id \in BatchIds |->
                         [NewDataSource EXCEPT !.failed_attempt_count = c[id]]]
        /\ records = <<>>
        /\ cards = {}
        /\ now = 0
        /\ last = NoCall
        /\ orch = IdleOrchestrator
        /\ crawls = [NoCrawls EXCEPT !.count0 = c]
        /\ task = IdleTask
        /\ call = NoResult

\* Model.save(update_fields=...) of the instance data_source: the row of the
\* table gets the instance's values in these columns
save(srcs, id, data_source, update_fields) ==
    [srcs EXCEPT ![id] = [f \in DOMAIN srcs[id] |->
                             IF f \in update_fields THEN data_source[f]
                             ELSE srcs[id][f]]]

\* the workers whose crawl is in flight
InFlight == {p \in Workers : crawls.frames[p].pc \notin {"idle", "done"}}

\* the frame of a call that has returned ret
Returned(f, ret) ==
    [f EXCEPT !.pc = "done", !.ret = ret, !.data_source = NewDataSource,
              !.list = <<>>, !.i = 0, !.row = 0]

\* crawls with the frame of worker p set to f and one more counted failure
\* of source id when counting
Ended(p, f, id, counting) ==
    [crawls EXCEPT !.frames[p] = f,
                   !.counted[id] = IF counting THEN @ + 1 ELSE @]

\* the tables as the crawl of frame f sees them through its own instance
Seen(f) == [World EXCEPT !.sources[f.id] = f.data_source]

\* worker p enters crawl_bank_data_source(id): _get_data_source and
\* _update_crawl_timestamp
BeginCrawl(p, id, ext, env) ==
    LET f == crawls.frames[p]
        data_source == _update_crawl_timestamp(sources[id], now)
        began == [crawls EXCEPT
                     !.base = IF InFlight = {} THEN World ELSE @,
                     !.begun = IF InFlight = {} THEN 1 ELSE @ + 1,
                     !.started = @ + 1]
        g == [IdleCrawl EXCEPT !.id = id, !.ext = ext, !.env = env]
    IN /\ f.pc \in {"idle", "done"}
       /\ crawls.started < MaxCrawls
       /\ (ext.exc # "" \/ ext.text = "") => env = NoParse
       /\ IF ~_get_data_source(World, id)
          THEN /\ crawls' = [began EXCEPT !.frames[p] = Returned(g, FALSE)]
               /\ UNCHANGED sources
          ELSE /\ crawls' = [began EXCEPT !.frames[p] =
                                [g EXCEPT !.pc = "extracting",
                                          !.data_source = data_source]]
               /\ sources' = save(sources, id, data_source, {"last_crawled_at"})
       /\ UNCHANGED <<records, cards, now, last, orch, task, call>>

\* extract_content has returned or raised for worker p: _extract_content_safely,
\* _should_skip_processing and _record_no_changes
Extracted(p) ==
    LET f == crawls.frames[p]
        id == f.id
        content_hash == _generate_content_hash(f.ext.text)
    IN /\ f.pc = "extracting"
       /\ IF f.ext.exc # ""
          THEN LET data_source == increment_failed_attempts(f.data_source) IN
               /\ sources' = save(sources, id, data_source,
                                  {"failed_attempt_count", "is_active"})
               /\ records' = _create_failed_crawl_record(
                                 records, id, ExtractionMessage(f.ext.exc), now)
               /\ crawls' = Ended(p, Returned([f EXCEPT !.data_source = data_source],
                                              FALSE), id, TRUE)
          ELSE IF _should_skip_processing(records, id, content_hash)
          THEN LET w == _record_no_changes(Seen(f), id, content_hash, now) IN
               /\ sources' = save(sources, id, w.sources[id],
                                  {"last_successful_crawl_at"})
               /\ records' = w.records
               /\ crawls' = Ended(p, Returned([f EXCEPT !.data_source = w.sources[id]],
                                              TRUE), id, FALSE)
          ELSE /\ crawls' = Ended(p, [f EXCEPT !.pc = "parsing"], id, FALSE)
               /\ UNCHANGED <<sources, records>>
       /\ UNCHANGED <<cards, now, last, orch, task, call>>

\* parse_comprehensive_data has returned or raised for worker p:
\* _parse_content_safely, _create_crawl_record and _update_database_safely up
\* to its upsert loop
Parsed(p) ==
    LET f == crawls.frames[p]
        id == f.id
        r == _parse_content_safely(Seen(f), id, f.env)
        content_hash == _generate_content_hash(f.ext.text)
        recs == _create_crawl_record(records, id, f.ext.text, content_hash,
                                     r.structured_data, now)
        actual_data == _extract_actual_data(r.structured_data)
    IN /\ f.pc = "parsing"
       /\ IF r.exc # ""
          THEN /\ sources' = IF r.exc = "ConfigurationError" THEN sources
                             ELSE save(sources, id, r.w.sources[id],
                                       {"failed_attempt_count", "is_active"})
               /\ crawls' = Ended(p, Returned([f EXCEPT !.data_source = r.w.sources[id]],
                                              FALSE),
                                  id, r.exc # "ConfigurationError")
               /\ UNCHANGED records
          ELSE IF ~Truthy(actual_data) \/ actual_data.t # "list"
          THEN LET w == _record_parsing_failure(
                            [Seen(f) EXCEPT !.records = recs], id, Len(recs),
                            actual_data)
               IN /\ sources' = save(sources, id, w.sources[id],
                                     {"failed_attempt_count", "is_active"})
                  /\ records' = w.records
                  /\ crawls' = Ended(p, Returned([f EXCEPT !.data_source = w.sources[id]],
                                                 FALSE), id, TRUE)
          ELSE /\ records' = recs
               /\ crawls' = Ended(p, [f EXCEPT !.pc = "upserting",
                                               !.list = actual_data.cards,
                                               !.i = 1, !.row = Len(recs)],
                                  id, FALSE)
               /\ UNCHANGED sources
       /\ UNCHANGED <<cards, now, last, orch, task, call>>

\* one iteration of the loop of update_credit_card_data for worker p, and
\* after the last one _record_successful_update
Upserted(p) ==
    LET f == crawls.frames[p]
        id == f.id
        w == _record_successful_update(
                 [Seen(f) EXCEPT !.records = records], id, f.row, now)
    IN /\ f.pc = "upserting"
       /\ cards' = _update_single_card(cards, BankOf(id), f.list[f.i])
       /\ IF f.i < Len(f.list)
          THEN /\ crawls' = Ended(p, [f EXCEPT !.i = @ + 1], id, FALSE)
               /\ UNCHANGED <<sources, records>>
          ELSE /\ records' = w.records
               /\ sources' = save(sources, id, w.sources[id],
                                  {"failed_attempt_count", "last_successful_crawl_at"})
               /\ crawls' = [Ended(p, Returned([f EXCEPT !.data_source = w.sources[id]],
                                               TRUE), id, FALSE)
                                EXCEPT !.reset = @ \cup {id}]
       /\ UNCHANGED <<now, last, orch, task, call>>

\* the admin action deactivate_sources on one source
DeactivateSources(id) ==
    /\ sources[id].is_active
    /\ sources' = [sources EXCEPT ![id].is_active = FALSE]
    /\ crawls' = [crawls EXCEPT !.deactivated = @ \cup {id}]
    /\ UNCHANGED <<records, cards, now, last, orch, task, call>>

\* a step of a crawl
CrawlStep ==
    \/ \E p \in Workers, id \in BatchIds, ext \in ConcurrentExts,
          env \in ConcurrentEnvs \cup {NoParse} : BeginCrawl(p, id, ext, env)
    \/ \E p \in Workers : Extracted(p)
    \/ \E p \in Workers : Parsed(p)
    \/ \E p \in Workers : Upserted(p)

NextConcurrent ==
    \/ CrawlStep
    \/ \E id \in BatchIds : DeactivateSources(id)

SpecConcurrent == InitConcurrent /\ [][NextConcurrent]_vars

\* SpecTask: the Celery task crawl_bank_data_source, sent by the scheduler
\* and run by a worker, with the retries it asks for

\* variant: the task asks for a retry while retries <= max_retries
crawl_bank_data_source_retrying_once_more(t, outcome) ==
    LET ran == [t EXCEPT !.executions = @ + 1, !.outcome = outcome] IN
    IF outcome = "True"
    THEN [ran EXCEPT !.state = "done", !.result = [status |-> "success"]]
    ELSE IF outcome = "False"
    THEN [ran EXCEPT !.state = "done", !.result = [status |-> "failed"]]
    ELSE IF t.retries <= TaskMaxRetries
    THEN [ran EXCEPT !.state = "retry", !.retries = @ + 1,
                     !.countdown = 60 * (2 ^ t.retries)]
    ELSE [ran EXCEPT !.state = "done", !.result = [status |-> "error"]]

\* the body of the task crawl_bank_data_source for what the crawl service did:
\* the task after the run.  self.retry(countdown=...) leaves it waiting for
\* its next run, which Celery makes with request.retries + 1.
crawl_bank_data_source(t, outcome) ==
    LET ran == [t EXCEPT !.executions = @ + 1, !.outcome = outcome] IN
    IF outcome = "True"
    THEN [ran EXCEPT !.state = "done", !.result = [status |-> "success"]]
    ELSE IF outcome = "False"
    THEN [ran EXCEPT !.state = "done", !.result = [status |-> "failed"]]
    ELSE IF t.retries < TaskMaxRetries
    THEN [ran EXCEPT !.state = "retry", !.retries = @ + 1,
                     !.countdown = 60 * (2 ^ t.retries)]
    ELSE [ran EXCEPT !.state = "done", !.result = [status |-> "error"]]

\* crawl_bank_data_source.delay(data_source_id)
SendTask(data_source_id) ==
    /\ task.state \in {"idle", "done"}
    /\ task' = [IdleTask EXCEPT !.state = "queued", !.data_source_id = data_source_id]
    /\ UNCHANGED <<sources, records, cards, now, last, orch, crawls, call>>

\* a worker runs the task; the crawl service raises before it has written
\* anything
RunTaskRaising ==
    /\ task.state \in {"queued", "retry"}
    /\ task' = crawl_bank_data_source(task, "raised")
    /\ UNCHANGED <<sources, records, cards, now, last, orch, crawls, call>>

\* a worker runs the task; the crawl service returns
RunTask(ext, env, failing) ==
    LET r == Crawl(World, task.data_source_id, ext, env, failing, now) IN
    /\ task.state \in {"queued", "retry"}
    /\ (ext.text = "" \/ task.data_source_id = UnknownId)
          => (env = NoParse /\ failing = {})
    /\ failing # {} => (env.answer = "json" /\ env.json.t = "list" /\ env.json.cards # <<>>)
    /\ Bounded(r.w)
    /\ sources' = r.w.sources
    /\ records' = r.w.records
    /\ cards' = r.w.cards
    /\ task' = crawl_bank_data_source(task, IF r.ret THEN "True" ELSE "False")
    /\ UNCHANGED <<now, last, orch, crawls, call>>

NextTask ==
    \/ \E data_source_id \in DataSourceIds \cup {UnknownId} : SendTask(data_source_id)
    \/ RunTaskRaising
    \/ \E ext \in ConcurrentExts, env \in ConcurrentEnvs \cup {NoParse},
          failing \in DbFailures : RunTask(ext, env, failing)

SpecTask == Init /\ [][NextTask]_vars

\* SpecFinder: calls of ScheduleChargeURLFinder.find_schedule_charge_url
FindScheduleChargeUrl(available, fetches, llm) ==
    /\ call' = [op |-> "find_schedule_charge_url",
                args |-> [available |-> available, fetches |-> fetches, llm |-> llm],
                result |-> find_schedule_charge_url(BaseUrl, available, fetches, llm)]
    /\ UNCHANGED <<sources, records, cards, now, last, orch, crawls, task>>

NextFinder ==
    \E available \in BOOLEAN, fetches \in Fetches \X Fetches, llm \in LLMAnswers :
        FindScheduleChargeUrl(available, fetches, llm)

SpecFinder == Init /\ [][NextFinder]_vars

\* SpecExtractor: calls of ContentExtractor.extract_content

\* banks/exceptions.py: the classes of an exception class, itself first
Bases(exc) ==
    CASE exc = "ContentExtractionError" ->
            {"ContentExtractionError", "RetryableError", "CrawlingError", "Exception"}
      [] exc = "AIParsingError" ->
            {"AIParsingError", "RetryableError", "CrawlingError", "Exception"}
      [] exc = "NetworkError" ->
            {"NetworkError", "RetryableError", "CrawlingError", "Exception"}
      [] exc = "DataValidationError" ->
            {"DataValidationError", "PermanentError", "CrawlingError", "Exception"}
      [] exc = "ConfigurationError" ->
            {"ConfigurationError", "PermanentError", "CrawlingError", "Exception"}
      [] exc = "FileFormatError" ->
            {"FileFormatError", "PermanentError", "CrawlingError", "Exception"}
      [] OTHER -> {exc}

\* isinstance(e, RetryableError), isinstance(e, PermanentError)
IsRetryable(exc) == "RetryableError" \in Bases(exc)
IsPermanent(exc) == "PermanentError" \in Bases(exc)

\* the status codes a server answers with
StatusCodes == {200, 204, 400, 403, 404, 429, 500, 503}

\* what session.get(url, timeout=30) does: it raises Timeout, ConnectionError
\* or another exception, or returns a response with a status code
NoResponse == 0
Gets ==
    {[raises |-> e, status_code |-> NoResponse] :
        e \in {"Timeout", "ConnectionError", "Exception"}}
    \cup {[raises |-> "", status_code |-> s] : s \in StatusCodes}

\* response.raise_for_status(): HTTPError for a 4xx or 5xx status
raise_for_status(get) ==
    IF get.raises # "" THEN get
    ELSE IF get.status_code >= 400 /\ get.status_code < 600
         THEN [get EXCEPT !.raises = "HTTPError"]
         ELSE get

\* an exception raised, with the status code of its details, or none
Raised(exc, status_code) == [exc |-> exc, status_code |-> status_code]
Fetched == Raised("", NoResponse)

\* _fetch_content with '>' in place of '>=' in the test of a server error
_fetch_content_server_error_above_500(get) ==
    LET response == raise_for_status(get) IN
    CASE response.raises = "" -> Fetched
      [] response.raises = "Timeout" -> Raised("NetworkError", NoResponse)
      [] response.raises = "ConnectionError" -> Raised("NetworkError", NoResponse)
      [] response.raises = "HTTPError" ->
            IF response.status_code = 404
            THEN Raised("ContentExtractionError", 404)
            ELSE IF response.status_code > 500
                 THEN Raised("NetworkError", response.status_code)
                 ELSE Raised("ContentExtractionError", response.status_code)
      [] OTHER -> Raised("ContentExtractionError", NoResponse)

_fetch_content(get) ==
    LET response == raise_for_status(get) IN
    CASE response.raises = "" -> Fetched
      [] response.raises = "Timeout" -> Raised("NetworkError", NoResponse)
      [] response.raises = "ConnectionError" -> Raised("NetworkError", NoResponse)
      [] response.raises = "HTTPError" ->
            IF response.status_code = 404
            THEN Raised("ContentExtractionError", 404)
            ELSE IF response.status_code >= 500
                 THEN Raised("NetworkError", response.status_code)
                 ELSE Raised("ContentExtractionError", response.status_code)
      [] OTHER -> Raised("ContentExtractionError", NoResponse)

\* banks/enums.py ContentType, and a content type that is none of them
ContentTypes == {"pdf", "webpage", "image", "csv"}
DeclaredTypes == ContentTypes \cup {"unknown"}

\* what _detect_content_type finds in the bytes: a content type or None
DetectedTypes == ContentTypes \cup {"None"}

\* the extractor of the content type returns a text or raises
Processings == {"", "Exception"}

_process_content(content_type, detected_type, processing) ==
    LET type == IF content_type \in ContentTypes THEN content_type ELSE detected_type
    IN IF type \notin ContentTypes
       THEN Raised("FileFormatError", NoResponse)
       ELSE IF processing # ""
            THEN Raised("ContentExtractionError", NoResponse)
            ELSE Fetched

extract_content(get, content_type, detected_type, processing) ==
    LET raw_content == _fetch_content(get) IN
    IF raw_content.exc # "" THEN raw_content
    ELSE _process_content(content_type, detected_type, processing)

ExtractContent(get, content_type, detected_type, processing) ==
    /\ call' = [op |-> "extract_content",
                args |-> [get |-> get, content_type |-> content_type,
                          detected_type |-> detected_type,
                          processing |-> processing],
                result |-> extract_content(get, content_type, detected_type,
                                           processing)]
    /\ UNCHANGED <<sources, records, cards, now, last, orch, crawls, task>>

NextExtractor ==
    \E get \in Gets, content_type \in DeclaredTypes,
       detected_type \in DetectedTypes, processing \in Processings :
        ExtractContent(get, content_type, detected_type, processing)

SpecExtractor == Init /\ [][NextExtractor]_vars

\* SpecSanitizer: calls of CreditCardDataValidator.sanitize_credit_card_data
\* with the list of one card.  A field value is None, a number or a string;
\* numbers are kept in hundredths (95.5 is 9550).
None == [t |-> "None", n |-> 0, s |-> <<>>]
Number(n) == [t |-> "number", n |-> n, s |-> <<>>]
Str(s) == [t |-> "str", n |-> 0, s |-> s]

\* int(c) of a digit
DigitValue(c) == CHOOSE n \in 0..9 : ToString(n) = c

RECURSIVE Decimal(_)
\* int(s) of a string of digits, 0 for the empty string
Decimal(s) ==
    IF s = <<>> THEN 0
    ELSE 10 * Decimal(SubSeq(s, 1, Len(s) - 1)) + DigitValue(s[Len(s)])

\* the sign and the digits of s.strip()
Unsigned(s) ==
    LET t == Strip(s) IN
    IF t # <<>> /\ Head(t) \in {"-", "+"} THEN Tail(t) ELSE t
Negative(s) == LET t == Strip(s) IN t # <<>> /\ Head(t) = "-"

\* the position of the decimal point of u, Len(u) + 1 when it has none
PointAt(u) ==
    IF \E i \in 1..Len(u) : u[i] = "."
    THEN CHOOSE i \in 1..Len(u) : u[i] = "." /\ \A j \in 1..(i - 1) : u[j] # "."
    ELSE Len(u) + 1

\* float(s) accepts s: surrounding whitespace, a sign, digits with at most
\* one decimal point and at least one digit (strings without exponent, inf,
\* nan and underscores)
IsFloat(s) ==
    LET u == Unsigned(s) IN
    /\ IsDigit(Remove(u, "."))
    /\ Len(u) - Len(Remove(u, ".")) <= 1

\* float(s) in hundredths, for a string with at most two decimals
FloatOf(s) ==
    LET u == Unsigned(s)
        p == PointAt(u)
        decimals == SubSeq(u, p + 1, Len(u)) \o <<"0", "0">>
        magnitude == 100 * Decimal(SubSeq(u, 1, p - 1))
                     + Decimal(SubSeq(decimals, 1, 2))
    IN IF Negative(s) THEN 0 - magnitude ELSE magnitude

\* max(0, x)
Max0(x) == IF x < 0 THEN 0 ELSE x

\* the try statement of _sanitize_numeric_fields for one field
SanitizedNumber(value) ==
    CASE value.t = "None" -> 0
      [] value.t = "number" -> Max0(value.n)
      [] value.t = "str" -> IF IsFloat(value.s) THEN Max0(FloatOf(value.s)) ELSE 0

_sanitize_numeric_fields(card_data) ==
    [annual_fee |-> SanitizedNumber(Get(card_data, "annual_fee", None)),
     interest_rate_apr |-> SanitizedNumber(Get(card_data, "interest_rate_apr", None))]

\* _sanitize_string_fields on the name
_sanitize_string_fields(card_data) ==
    [name |-> Strip(Get(card_data, "name", <<>>))]

\* the values of a numeric field in a parsed card
NumericValues ==
    { None, Number(9500), Number(0 - 500),
      Str(<<"9", "5", ".", "5", "0">>),
      Str(<<"$", "1", ",", "2", "5", "0", ".", "5", "0">>),
      Str(<<"2", "2", "%">>),
      Str(<<"1", "8", ".", "9", "9", "%">>),
      Str(<<" ", "2", "2", " ">>),
      Str(<<"1", ",", "2", "5", "0">>),
      Str(<<"-", "5">>),
      Str(<<"0">>),
      Str(<<"N", "/", "A">>),
      Str(<<>>) }

SanitizeCreditCardData(card_data) ==
    /\ call' = [op |-> "sanitize_credit_card_data",
                args |-> card_data,
                result |-> _sanitize_numeric_fields(card_data)
                           @@ _sanitize_string_fields(card_data)]
    /\ UNCHANGED <<sources, records, cards, now, last, orch, crawls, task>>

NextSanitizer ==
    \E annual_fee \in NumericValues, interest_rate_apr \in NumericValues :
        SanitizeCreditCardData([name |-> <<" ">> \o Gold,
                                annual_fee |-> annual_fee,
                                interest_rate_apr |-> interest_rate_apr])

SpecSanitizer == Init /\ [][NextSanitizer]_vars

\* SpecComprehensive: crawls of a source whose remote document stays the
\* same, in which the two requests of parse_comprehensive_data are answered
\* separately.  What the second,
\* comprehensive request does: it raises AIParsingError ("failure") or its
\* answer parses to raw data.
ComprehensiveAnswers ==
    {[answer |-> "failure", json |-> JEmptyDict]}
    \cup {[answer |-> "json", json |-> j] : j \in {JEmptyDict, JList(<<GoldCard>>)}}

\* the parse whose structured request is answered as in env and whose
\* comprehensive request is answered by comprehensive: the failure of the
\* second request leaves parse_comprehensive_data as that of the first does
WithComprehensive(env, comprehensive) ==
    IF env.configured /\ env.answer = "json" /\ comprehensive.answer = "failure"
    THEN [env EXCEPT !.answer = "failure", !.json = JEmptyDict]
    ELSE env

\* parsed_json_raw of the row _create_crawl_record stores, when it stores one
parsed_json_raw(env, comprehensive) ==
    IF parse_comprehensive_data(WithComprehensive(env, comprehensive)).exc = ""
    THEN comprehensive.json ELSE JEmptyDict

\* one crawl, and what the same crawl of the same tables does when the
\* comprehensive request is answered by other
CrawlWithComprehensive(id, ext, env, comprehensive, other, failing) ==
    LET r == Crawl(World, id, ext, WithComprehensive(env, comprehensive), failing, now)
        o == Crawl(World, id, ext, WithComprehensive(env, other), failing, now)
    IN
    /\ failing # {} => (env.answer = "json" /\ env.json.t = "list" /\ env.json.cards # <<>>)
    /\ Bounded(r.w) /\ Bounded(o.w)
    /\ sources' = r.w.sources
    /\ records' = r.w.records
    /\ cards' = r.w.cards
    /\ call' = [op |-> "crawl_bank_data_source",
                args |-> [id |-> id, env |-> env, comprehensive |-> comprehensive,
                          other |-> other],
                result |-> [ret |-> r.ret, parser_calls |-> r.parser_calls,
                            w |-> r.w,
                            raw |-> parsed_json_raw(env, comprehensive),
                            other |-> [ret |-> o.ret, w |-> o.w,
                                       raw |-> parsed_json_raw(env, other)]]]
    /\ UNCHANGED <<now, last, orch, crawls, task>>

NextComprehensive ==
    \E id \in DataSourceIds, ext \in {[exc |-> "", text |-> RemoteText]},
       env \in ParserEnvs,
       comprehensive \in ComprehensiveAnswers, other \in ComprehensiveAnswers,
       failing \in DbFailures :
        CrawlWithComprehensive(id, ext, env, comprehensive, other, failing)

SpecComprehensive == Init /\ [][NextComprehensive]_vars

\* SpecProviders: one generate_response call made on an OpenRouterProvider
\* and on a GeminiProvider whose backends fail in the same way.  The message
\* of a backend exception is the set of the phrases that str(e).lower()
\* contains among those the providers look for.
Phrases ==
    {"authentication", "unauthorized", "api_key", "rate limit", "quota",
     "timeout", "connection", "blocked", "safety"}

\* what the backend does: it raises an exception with a message, or returns
\* an empty or a non-empty answer
BackendResults ==
    {[kind |-> "raises", message |-> m] : m \in SUBSET Phrases}
    \cup {[kind |-> k, message |-> {}] : k \in {"empty", "text"}}

\* the except clause of OpenRouterProvider.generate_response
_handle_openrouter_error(error_message) ==
    IF "authentication" \in error_message \/ "unauthorized" \in error_message
    THEN "LLMAuthenticationError"
    ELSE IF "rate limit" \in error_message \/ "quota" \in error_message
    THEN "LLMRateLimitError"
    ELSE IF "timeout" \in error_message \/ "connection" \in error_message
    THEN "LLMNetworkError"
    ELSE "LLMResponseError"

_is_auth_error(error_message) ==
    "api_key" \in error_message \/ "authentication" \in error_message
_is_rate_limit_error(error_message) ==
    "quota" \in error_message \/ "rate limit" \in error_message
_is_network_error(error_message) ==
    "timeout" \in error_message \/ "connection" \in error_message
_is_safety_error(error_message) ==
    "blocked" \in error_message \/ "safety" \in error_message

_handle_gemini_error(error_message) ==
    IF _is_auth_error(error_message) THEN "LLMAuthenticationError"
    ELSE IF _is_rate_limit_error(error_message) THEN "LLMRateLimitError"
    ELSE IF _is_network_error(error_message) THEN "LLMNetworkError"
    ELSE IF _is_safety_error(error_message) THEN "LLMResponseError"
    ELSE "LLMResponseError"

\* the exception generate_response raises, "" when it returns the answer.
\* The LLMResponseError raised for an empty answer inside the try block is
\* caught by the except clause and mapped again; its message holds no phrase.
OpenRouterGenerate(is_available, backend) ==
    IF ~is_available THEN "LLMConfigurationError"
    ELSE CASE backend.kind = "text" -> ""
           [] backend.kind = "empty" -> _handle_openrouter_error({})
           [] OTHER -> _handle_openrouter_error(backend.message)

GeminiGenerate(is_available, backend) ==
    IF ~is_available THEN "LLMConfigurationError"
    ELSE CASE backend.kind = "text" -> ""
           [] backend.kind = "empty" -> _handle_gemini_error({})
           [] OTHER -> _handle_gemini_error(backend.message)

ProviderGenerate(is_available, backend) ==
    /\ call' = [op |-> "provider.generate_response",
                args |-> [is_available |-> is_available, backend |-> backend],
                result |-> [openrouter |-> OpenRouterGenerate(is_available, backend),
                            gemini |-> GeminiGenerate(is_available, backend)]]
    /\ UNCHANGED <<sources, records, cards, now, last, orch, crawls, task>>

NextProviders ==
    \E is_available \in BOOLEAN, backend \in BackendResults :
        ProviderGenerate(is_available, backend)

SpecProviders == Init /\ [][NextProviders]_vars

\* SpecParser: calls of LLMContentParser.parse_credit_card_data, with what
\* the two backends of the parser do.  An answer is no choice or no response
\* object ("none"), an empty string, whitespace, text that is no JSON, or
\* JSON; "raises" is an exception of the client library.
OpenRouterAnswers == {"raises", "none", "empty", "blank", "garbage", "json"}
GeminiAnswers == {"raises", "none", "empty", "blank", "garbage", "json"}

\* what a generation method returns or raises, after the calls it made
Generated(exc, response, calls) == [exc |-> exc, response |-> response, calls |-> calls]

_generate_gemini_response(gemini, calls) ==
    IF gemini \in {"raises", "none", "empty"}
    THEN Generated("AIParsingError", "", Append(calls, "gemini"))
    ELSE Generated("", gemini, Append(calls, "gemini"))

_generate_ai_response(openrouter_api_key, OPENAI_AVAILABLE, openrouter, gemini) ==
    IF ~openrouter_api_key \/ ~OPENAI_AVAILABLE
    THEN _generate_gemini_response(gemini, <<>>)
    ELSE IF openrouter \in {"none", "empty"}
         THEN Generated("AIParsingError", "", <<"openrouter">>)
         ELSE IF openrouter = "raises"
              THEN _generate_gemini_response(gemini, <<"openrouter">>)
              ELSE Generated("", openrouter, <<"openrouter">>)

\* _parse_json_response raises AIParsingError unless the stripped response
\* is JSON
_parse_json_response(raw_response) ==
    IF raw_response = "json" THEN "" ELSE "AIParsingError"

\* parse_credit_card_data up to the parsed JSON: the exception that reaches
\* the crawler, the stage that raised it and the backends that were called
ParseWithBackends(genai, GEMINI_API_KEY, openrouter_api_key, OPENAI_AVAILABLE, openrouter, gemini) ==
    IF ~genai \/ ~GEMINI_API_KEY
    THEN [exc |-> "ConfigurationError", stage |-> "configuration", calls |-> <<>>]
    ELSE LET raw_data == _generate_ai_response(openrouter_api_key, OPENAI_AVAILABLE,
                                               openrouter, gemini)
         IN IF raw_data.exc # ""
            THEN [exc |-> raw_data.exc, stage |-> "response", calls |-> raw_data.calls]
            ELSE [exc |-> _parse_json_response(raw_data.response), stage |-> "json",
                  calls |-> raw_data.calls]

ParseCreditCardData(genai, GEMINI_API_KEY, openrouter_api_key, OPENAI_AVAILABLE, openrouter, gemini) ==
    /\ call' = [op |-> "parse_credit_card_data",
                args |-> [genai |-> genai, GEMINI_API_KEY |-> GEMINI_API_KEY,
                          openrouter_api_key |-> openrouter_api_key,
                          OPENAI_AVAILABLE |-> OPENAI_AVAILABLE,
                          openrouter |-> openrouter, gemini |-> gemini],
                result |-> ParseWithBackends(genai, GEMINI_API_KEY, openrouter_api_key,
                                             OPENAI_AVAILABLE, openrouter, gemini)]
    /\ UNCHANGED <<sources, records, cards, now, last, orch, crawls, task>>

NextParser ==
    \E genai \in BOOLEAN, GEMINI_API_KEY \in BOOLEAN,
       openrouter_api_key \in BOOLEAN, OPENAI_AVAILABLE \in BOOLEAN,
       openrouter \in OpenRouterAnswers, gemini \in GeminiAnswers :
        ParseCreditCardData(genai, GEMINI_API_KEY, openrouter_api_key,
                            OPENAI_AVAILABLE, openrouter, gemini)

SpecParser == Init /\ [][NextParser]_vars

\* SpecDiscovery: runs of the task find_and_update_schedule_charge_urls over
\* the active banks that have a schedule_charge_url, while crawls fail and
\* days pass.  A BankDataSource row carries here its bank, url, content_type
\* and last_verified_at too.
DiscoveryBanks == {1, 2}
Urls == {"u1", "u2"}

\* what find_schedule_charge_url returns for a bank: found with a url and
\* perhaps a content_type, or not found; "raises" is an exception inside
\* _process_bank_schedule_url
FindResults ==
    {[found |-> FALSE, url |-> "", content_type |-> "", raises |-> r] : r \in BOOLEAN}
    \cup {[found |-> TRUE, url |-> u, content_type |-> c, raises |-> FALSE] :
            u \in Urls, c \in {"WEBPAGE", ""}}

\* _map_content_type(find_result.get("content_type", "PDF"))
_map_content_type(content_type) ==
    IF content_type \in {"PDF", ""} THEN "pdf" ELSE "webpage"

\* BankDataSource.objects.filter(bank=bank, url=exact_url).first(), 0 for None
ExistingSource(srcs, bank, url) ==
    LET rows == {i \in 1..Len(srcs) : srcs[i].bank = bank /\ srcs[i].url = url}
    IN IF rows = {} THEN 0 ELSE CHOOSE i \in rows : \A j \in rows : i <= j

\* variant: a verified source is switched on again
_update_existing_source_reactivating(srcs, existing_source, t) ==
    [srcs EXCEPT ![existing_source].last_verified_at = t,
                 ![existing_source].is_active = TRUE]

_update_existing_source(srcs, existing_source, t) ==
    [srcs EXCEPT ![existing_source].last_verified_at = t]

_create_new_source(srcs, bank, exact_url, enum_content_type, t) ==
    Append(srcs, [bank |-> bank, url |-> exact_url, content_type |-> enum_content_type,
                  last_verified_at |-> t] @@ NewDataSource)

_handle_found_url(srcs, bank, find_result, t) ==
    LET existing_source == ExistingSource(srcs, bank, find_result.url) IN
    IF existing_source # 0
    THEN _update_existing_source(srcs, existing_source, t)
    ELSE _create_new_source(srcs, bank, find_result.url,
                            _map_content_type(find_result.content_type), t)

_process_bank_schedule_url(srcs, bank, find_result, t) ==
    IF find_result.raises \/ ~find_result.found THEN srcs
    ELSE _handle_found_url(srcs, bank, find_result, t)

RECURSIVE ProcessBanks(_, _, _, _)
\* the loop of find_and_update_schedule_charge_urls over the banks
ProcessBanks(srcs, banks, finds, t) ==
    IF banks = <<>> THEN srcs
    ELSE ProcessBanks(_process_bank_schedule_url(srcs, Head(banks), finds[Head(banks)], t),
                      Tail(banks), finds, t)

\* the url a bank's find result is handled with, "" when none is
FoundUrl(find_result) ==
    IF find_result.found /\ ~find_result.raises THEN find_result.url ELSE ""

InitDiscovery ==
    /\ sources = <<>>
    /\ records = <<>>
    /\ cards = {}
    /\ now = 0
    /\ last = NoCall
    /\ orch = IdleOrchestrator
    /\ crawls = NoCrawls
    /\ task = IdleTask
    /\ call = NoResult

FindAndUpdateScheduleChargeUrls(finds) ==
    /\ Len(ProcessBanks(sources, InIdOrder(DiscoveryBanks), finds, now)) <= MaxSources
    /\ sources' = ProcessBanks(sources, InIdOrder(DiscoveryBanks), finds, now)
    /\ last' = [NoCall EXCEPT !.op = "find_and_update_schedule_charge_urls"]
    /\ call' = [op |-> "find_and_update_schedule_charge_urls",
                args |-> [bank \in DiscoveryBanks |-> FoundUrl(finds[bank])],
                result |-> [created |-> Len(sources') - Len(sources)]]
    /\ UNCHANGED <<records, cards, now, orch, crawls, task>>

NextDiscovery ==
    \/ \E finds \in [DiscoveryBanks -> FindResults] :
          FindAndUpdateScheduleChargeUrls(finds)
    \/ \E id \in DOMAIN sources : IncrementFailedAttempts(id)
    \/ Tick

SpecDiscovery == InitDiscovery /\ [][NextDiscovery]_vars

\* SpecSequential: crawl_bank_data_source calls made one after the other,
\* resets of the counter and the admin action that activates a source;
\* failed_attempt_count is followed one failure beyond MaxFailed
BoundedRows(w) ==
    /\ Len(w.records) <= MaxRecords
    /\ \A i \in 1..Len(w.records) : Len(w.records[i].sync_timestamps) <= MaxSyncs
    /\ \A id \in DOMAIN w.sources : w.sources[id].failed_attempt_count <= MaxFailed + 1

\* the admin action activate_sources on one source
ActivateSources(id) ==
    /\ ~sources[id].is_active
    /\ sources' = [sources EXCEPT ![id].is_active = TRUE]
    /\ last' = [NoCall EXCEPT !.op = "activate_sources", !.id = id]
    /\ UNCHANGED <<records, cards, now, orch, crawls, task, call>>

CrawlSequentially(id, ext, env, failing) ==
    LET r == Crawl(World, id, ext, env, failing, now) IN
    /\ (ext.text = "" \/ id = UnknownId) => (env = NoParse /\ failing = {})
    /\ failing # {} => (env.answer = "json" /\ env.json.t = "list" /\ env.json.cards # <<>>)
    /\ BoundedRows(r.w)
    /\ sources' = r.w.sources
    /\ records' = r.w.records
    /\ cards' = r.w.cards
    /\ last' = [NoCall EXCEPT !.op = "crawl", !.id = id, !.ret = r.ret, !.ext = ext,
                              !.parser_calls = r.parser_calls,
                              !.parser_exc = r.parser_exc,
                              !.upsert_raised = r.upsert_raised,
                              !.extract_calls = r.extract_calls]
    /\ UNCHANGED <<now, orch, crawls, task, call>>

NextSequential ==
    \/ \E id \in DataSourceIds \cup {UnknownId}, ext \in ExtractOutcomes,
          env \in ParserEnvs, failing \in DbFailures :
          CrawlSequentially(id, ext, env, failing)
    \/ \E id \in DataSourceIds : ResetFailedAttempts(id)
    \/ \E id \in DataSourceIds : ActivateSources(id)

SpecSequential == Init /\ [][NextSequential]_vars

\* SpecSanitizerTwice: sanitize_credit_card_data called on one parsed card
\* and then again on what the first call returned

\* the longest additional_features list of a parsed card
MaxFeatures == 2

\* a JSON list and a JSON object with a description
List(items) == [t |-> "list", items |-> items]

Dict(description) == [t |-> "dict", description |-> description]

\* str(n) for an integer n >= 0
RECURSIVE IntStr(_)
IntStr(n) ==
    LET d == <<"0", "1", "2", "3", "4", "5", "6", "7", "8", "9">>[(n % 10) + 1] IN
    IF n < 10 THEN <<d>> ELSE IntStr(n \div 10) \o <<d>>

\* bool(feature)
FeatureTruthy(feature) ==
    CASE feature.t = "None" -> FALSE
      [] feature.t = "number" -> feature.n # 0
      [] feature.t = "str" -> feature.s # <<>>
      [] OTHER -> TRUE

\* str(feature).strip()
StrippedStr(feature) ==
    CASE feature.t = "str" -> Strip(feature.s)
      [] feature.t = "number" -> IntStr(feature.n)
      [] OTHER -> <<"N", "o", "n", "e">>

\* _sanitize_json_fields: the features are filtered as they come and
\* stripped afterwards
_sanitize_json_fields(card_data) ==
    LET annual_fee_waiver == Get(card_data, "annual_fee_waiver_policy", None)
        additional_features == Get(card_data, "additional_features", None)
        kept == IF additional_features.t = "list"
                THEN SelectSeq(additional_features.items, FeatureTruthy)
                ELSE <<>>
    IN [annual_fee_waiver_policy |->
            CASE annual_fee_waiver.t = "dict" -> annual_fee_waiver
              [] annual_fee_waiver.t = "str" /\ Strip(annual_fee_waiver.s) # <<>> ->
                    Dict(Strip(annual_fee_waiver.s))
              [] OTHER -> None,
        additional_features |->
            List([i \in 1..Len(kept) |-> Str(StrippedStr(kept[i]))])]

\* _sanitize_single_card with every group of fields; the numbers of the
\* result are Python numbers, as they are when the result is sanitized again
SanitizedCard(card_data) ==
    LET numeric == _sanitize_numeric_fields(card_data) IN
    _sanitize_string_fields(card_data)
    @@ [annual_fee |-> Number(numeric.annual_fee),
        interest_rate_apr |-> Number(numeric.interest_rate_apr)]
    @@ _sanitize_json_fields(card_data)

\* the elements of an additional_features list
Features ==
    { None, Number(7), Str(<<>>), Str(<<" ">>),
      Str(<<" ", "l", "o", "u", "n", "g", "e">>) }

\* the values of additional_features in a parsed card: lists, and values
\* that are no list
FeatureValues ==
    { List(items) : items \in UNION {[1..n -> Features] : n \in 0..MaxFeatures} }
    \cup { None, Str(<<"c", "a", "s", "h">>) }

\* the values of annual_fee_waiver_policy in a parsed card
WaiverValues ==
    { None, Number(7), Str(<<" ">>), Str(<<" ", "s", "p", "e", "n", "d">>),
      Dict(<<" ", "s", "p", "e", "n", "d">>) }

SanitizeCreditCardDataTwice(card_data) ==
    LET once == SanitizedCard(card_data) IN
    /\ call' = [op |-> "sanitize_credit_card_data twice",
                args |-> card_data,
                result |-> [once |-> once, again |-> SanitizedCard(once)]]
    /\ UNCHANGED <<sources, records, cards, now, last, orch, crawls, task>>

NextSanitizerTwice ==
    \E annual_fee \in {None, Number(0 - 500), Str(<<"9", "5", ".", "5", "0">>)},
       annual_fee_waiver_policy \in WaiverValues,
       additional_features \in FeatureValues :
        SanitizeCreditCardDataTwice(
            [name |-> <<" ">> \o Gold,
             annual_fee |-> annual_fee,
             interest_rate_apr |-> Str(<<"2", "2", "%">>),
             annual_fee_waiver_policy |-> annual_fee_waiver_policy,
             additional_features |-> additional_features])

SpecSanitizerTwice == Init /\ [][NextSanitizerTwice]_vars

----------------------------------------------------------------------------
(* Properties *)

\* the step is a call crawl_bank_data_source(id)
CrawlOf(id) == last'.op = "crawl" /\ last'.id = id

\* the step is a call crawl_bank_data_source(id) that found the source active
\* and extracted the text t from it
CrawlExtracting(id, t) ==
    /\ CrawlOf(id)
    /\ sources[id].is_active
    /\ last'.ext = [exc |-> "", text |-> t]

\* before the step: the most recent completed row of the source, if any
LatestCompletedRow(id) ==
    {i \in 1..Len(records) :
        /\ records[i].data_source = id
        /\ records[i].processing_status = "completed"
        /\ \A j \in (i + 1)..Len(records) :
              ~(records[j].data_source = id /\ records[j].processing_status = "completed")}

\* before the step, the most recent completed row of the source has hash h
LatestCompletedHas(id, h) ==
    \E i \in LatestCompletedRow(id) : records[i].content_hash = h

\* the rows the step added to the table (no row is deleted in Spec)
NewRows == (Len(records) + 1)..Len(records')

\* C1: a source is active only while its failed_attempt_count is below 5, and
\* is_active turns false only in a step that brings the count to 5 from below.
C1_DeactivatedAtFive ==
    [][\A id \in DataSourceIds :
          /\ sources'[id].is_active => sources'[id].failed_attempt_count < 5
          /\ (sources[id].is_active /\ ~sources'[id].is_active) =>
                /\ sources[id].failed_attempt_count < 5
                /\ sources'[id].failed_attempt_count = 5]_vars

C1_Witness ==
    \E id \in DataSourceIds :
        ~sources[id].is_active /\ sources[id].failed_attempt_count = 5

\* C2: every crawl of an active source that returns False for another reason
\* than a ConfigurationError of the parser adds exactly 1 to the source's
\* failed_attempt_count.
C2_EveryFailureCounted ==
    [][\A id \in DataSourceIds :
          (/\ CrawlOf(id)
           /\ sources[id].is_active
           /\ ~last'.ret
           /\ last'.parser_exc # "ConfigurationError")
          => sources'[id].failed_attempt_count = sources[id].failed_attempt_count + 1]_vars

\* C3: every crawl of an active source that returns False has written, during
\* the call, a CrawledContent row of that source in status failed with a
\* non-empty error_message.
C3_FailureLeavesFailedRow ==
    [][\A id \in DataSourceIds :
          (CrawlOf(id) /\ sources[id].is_active /\ ~last'.ret)
          => \E i \in NewRows :
                /\ records'[i].data_source = id
                /\ records'[i].processing_status = "failed"
                /\ records'[i].error_message # <<>>]_vars

\* C4: a crawl whose parsing step raises ConfigurationError returns False and
\* leaves failed_attempt_count and is_active of the source as they were.
C4_ConfigurationErrorNotCounted ==
    [][\A id \in DataSourceIds :
          (CrawlOf(id) /\ last'.parser_exc = "ConfigurationError")
          => /\ ~last'.ret
             /\ sources'[id].failed_attempt_count = sources[id].failed_attempt_count
             /\ sources'[id].is_active = sources[id].is_active]_vars

C4_Witness ==
    /\ last.op = "crawl"
    /\ last.parser_exc = "ConfigurationError"
    /\ sources[last.id].failed_attempt_count = 4
    /\ sources[last.id].is_active

\* the step appends exactly one timestamp to sync_timestamps of row i and
\* changes nothing else in the table
OneSyncAppended(i) ==
    /\ Len(records') = Len(records)
    /\ Len(records'[i].sync_timestamps) = Len(records[i].sync_timestamps) + 1
    /\ records' = [records EXCEPT ![i].sync_timestamps = records'[i].sync_timestamps]

\* the completed rows of the source that carry hash h, in table recs
CompletedWith(recs, id, h) ==
    {i \in 1..Len(recs) : /\ recs[i].data_source = id
                          /\ recs[i].processing_status = "completed"
                          /\ recs[i].content_hash = h}

C6_ParsedOnce ==
    [][\A id \in DataSourceIds :
          (CrawlOf(id) /\ sources[id].last_successful_crawl_at # Null)
          => last'.parser_calls = 0]_vars

\* C7: a crawl of an active source calls the parser exactly when it extracted
\* a non-empty text and the source has no completed row or the most recent
\* one carries another hash; with the same text as that row's it never does,
\* with another text it always does.
C7_ParserCalledIffChanged ==
    [][\A id \in DataSourceIds :
          (CrawlOf(id) /\ sources[id].is_active)
          => /\ last'.parser_calls \in {0, 1}
             /\ (last'.parser_calls = 1) <=>
                   (/\ last'.ext.exc = ""
                    /\ last'.ext.text # ""
                    /\ ~LatestCompletedHas(id, _generate_content_hash(last'.ext.text)))
             /\ \A i \in LatestCompletedRow(id) :
                   (last'.ext.exc = "" /\ last'.ext.text # "")
                   => ((last'.parser_calls = 0) <=>
                          (last'.ext.text = records[i].extracted_content))]_vars

C7_Witness ==
    /\ last.op = "crawl" /\ last.parser_calls = 1
    /\ Len(records) = 2
    /\ records[1].processing_status = "completed"
    /\ records[1].extracted_content = last.ext.text
    /\ records[2].processing_status = "completed"
    /\ records[2].extracted_content # last.ext.text

\* C8: when a crawl has returned True, changed or unchanged content alike,
\* the source's failed_attempt_count is 0 and its last_successful_crawl_at is
\* the time of the crawl.
C8_SuccessResetsCounter ==
    (last.op = "crawl" /\ last.ret)
    => /\ sources[last.id].failed_attempt_count = 0
       /\ sources[last.id].last_successful_crawl_at = now

\* C9: a crawl in which storing a card raises a persistence exception returns
\* False, adds 1 to failed_attempt_count and leaves its row in status failed
\* with an error_message starting with "Database update failed: ".
C9_PersistenceFailureFails ==
    [][\A id \in DataSourceIds :
          (CrawlOf(id) /\ last'.upsert_raised > 0)
          => /\ ~last'.ret
             /\ sources'[id].failed_attempt_count = sources[id].failed_attempt_count + 1
             /\ \E i \in NewRows :
                   /\ records'[i].processing_status = "failed"
                   /\ records'[i].error_message # <<>>
                   /\ Head(records'[i].error_message) = "Database update failed: "]_vars

\* C10: reset_failed_attempts sets failed_attempt_count to 0 and leaves
\* is_active as it was: a deactivated source stays deactivated.
C10_ResetKeepsActivity ==
    [][\A id \in DataSourceIds :
          ResetFailedAttempts(id)
          => /\ sources'[id].failed_attempt_count = 0
             /\ sources'[id].is_active = sources[id].is_active]_vars

C10_Witness ==
    \E id \in DataSourceIds :
        ~sources[id].is_active /\ sources[id].failed_attempt_count = 0

\* C11: crawl_bank_data_source on an id without a row or on an inactive
\* source returns False and changes nothing: the extractor and the parser are
\* not called, no row is written, and the source keeps its timestamps, its
\* failed_attempt_count and its is_active.
C11_NotLoadedChangesNothing ==
    [][(/\ last'.op = "crawl"
        /\ last'.id \in DataSourceIds => ~sources[last'.id].is_active)
       => /\ ~last'.ret
          /\ last'.extract_calls = 0
          /\ last'.parser_calls = 0
          /\ sources' = sources
          /\ records' = records
          /\ cards' = cards]_vars

C11_Witness ==
    /\ last.op = "crawl"
    /\ last.id \in DataSourceIds
    /\ last.extract_calls = 0
    /\ ~sources[last.id].is_active
    /\ sources[last.id].last_crawled_at = Null

\* C12: crawl_all_active_sources calls crawl_bank_data_source once for each
\* source that is active when the batch starts and for no other, whatever
\* the single crawls do, and returns total = successful + failed = the
\* number of those sources.
C12_BatchCrawlsEachActiveOnce ==
    [][last'.op = "crawl_all"
       => /\ \A i, j \in 1..Len(last'.crawled) :
                last'.crawled[i] = last'.crawled[j] => i = j
          /\ {last'.crawled[i] : i \in 1..Len(last'.crawled)}
                = {id \in BatchIds : sources[id].is_active}
          /\ last'.total = Len(last'.crawled)
          /\ last'.total = last'.successful + last'.failed]_vars

\* a batch over two sources went on after the failure of the first crawl
C12_Witness ==
    /\ last.op = "crawl_all"
    /\ last.crawled = <<1, 2>>
    /\ last.failed = 1 /\ last.successful = 1
    /\ sources[1].failed_attempt_count > 0
    /\ sources[2].last_successful_crawl_at = now

\* the generate_response call of orch has returned or raised
CallEnded == orch.pc \in {"returned", "raised"}

\* positions in orch.attempts of the attempts on provider name
AttemptsOn(name) == {i \in 1..Len(orch.attempts) : orch.attempts[i][1] = name}

\* the error recorded for the attempt at position i of orch.attempts, ""
\* when the attempt gave a valid response
ErrorOfAttempt(i) ==
    IF \E j \in 1..Len(orch.errors) : orch.errors[j].key = orch.attempts[i]
    THEN LET j == CHOOSE j \in 1..Len(orch.errors) :
                     orch.errors[j].key = orch.attempts[i]
         IN orch.errors[j].error
    ELSE ""

\* C13: with two available providers, the first raising a non-rate-limit
\* LLMError on every attempt and the second succeeding, generate_response
\* returns the second provider's text with provider set to the second;
\* attempts lists the max_retries + 1 attempts on the first and the attempt
\* on the second, errors holds the errors of the first.
C13_FallbackToSecondProvider ==
    (/\ CallEnded
     /\ Len(orch.order) = 2
     /\ \A i \in AttemptsOn(orch.order[1]) : ErrorOfAttempt(i) = "LLMError"
     /\ \A i \in AttemptsOn(orch.order[2]) : ErrorOfAttempt(i) = "")
    => /\ orch.pc = "returned"
       /\ orch.response = "text"
       /\ orch.provider = orch.order[2]
       /\ orch.attempts =
             [i \in 1..(orch.max_retries + 1) |-> <<orch.order[1], i>>]
                \o << <<orch.order[2], 1>> >>
       /\ orch.errors =
             [i \in 1..(orch.max_retries + 1) |->
                [key |-> <<orch.order[1], i>>, error |-> "LLMError"]]

C13_Witness ==
    /\ orch.pc = "returned"
    /\ orch.order = <<"gemini", "openrouter">>
    /\ orch.provider = "openrouter"
    /\ Len(orch.errors) = 2
    /\ \A j \in 1..Len(orch.errors) : orch.errors[j].error = "LLMError"

\* the providers the call of orch has attempted
AttemptedProviders == {orch.attempts[i][1] : i \in 1..Len(orch.attempts)}

\* C14: when every attempt on every available provider has failed,
\* generate_response raises AllLLMProvidersFailedError (it returns nothing)
\* and the failures map of the error has exactly one entry for each
\* attempted provider.
C14_OneFailureEntryPerProvider ==
    (/\ CallEnded
     /\ orch.order # <<>>
     /\ \A i \in 1..Len(orch.attempts) : ErrorOfAttempt(i) # "")
    => /\ orch.pc = "raised"
       /\ orch.exc = "AllLLMProvidersFailedError"
       /\ orch.response = ""
       /\ Len(orch.errors) = Cardinality(AttemptedProviders)
       /\ \A name \in AttemptedProviders :
             Cardinality({j \in 1..Len(orch.errors) : orch.errors[j].key[1] = name}) = 1

\* what does hold of C14: the call raises, with one failures entry for each
\* failed attempt
C14_RaisesWithEntryPerAttempt ==
    (/\ CallEnded
     /\ orch.order # <<>>
     /\ \A i \in 1..Len(orch.attempts) : ErrorOfAttempt(i) # "")
    => /\ orch.pc = "raised"
       /\ orch.exc = "AllLLMProvidersFailedError"
       /\ orch.response = ""
       /\ Len(orch.errors) = Len(orch.attempts)
       /\ \A i \in 1..Len(orch.errors) : orch.errors[i].key = orch.attempts[i]

\* no attempt of the call of orch follows, on the same provider, an attempt
\* that ended in a rate-limit error or in an exception that is no LLMError
NoAttemptAfterFinalError ==
    \A i, j \in 1..Len(orch.attempts) :
        (i < j /\ ErrorOfAttempt(i) \in {"LLMRateLimitError", "Exception"})
        => orch.attempts[j][1] # orch.attempts[i][1]

\* C15: an attempt that ends in a rate-limit error or in an exception that
\* is not an LLMError is the last attempt of the call on its provider,
\* whatever retries remain: the call goes on with the next provider of the
\* order, or raises when there is none.
C15_NoRetryAfterRateLimit ==
    [][/\ (/\ orch.pc = "running"
           /\ Len(orch'.errors) = Len(orch.errors) + 1
           /\ orch'.errors[Len(orch'.errors)].error \in {"LLMRateLimitError", "Exception"})
          => IF orch.p < Len(orch.order)
             THEN /\ orch'.pc = "running"
                  /\ orch'.p = orch.p + 1
                  /\ orch'.attempt = 0
             ELSE orch'.pc = "raised"
       /\ NoAttemptAfterFinalError']_vars

C15_Witness ==
    /\ orch.max_retries = 1
    /\ Len(orch.attempts) = 2
    /\ ErrorOfAttempt(1) = "LLMRateLimitError"
    /\ orch.attempts[2] = <<orch.order[2], 1>>

\* positions in orch.calls of the calls of provider name
CallsOf(name) == {i \in 1..Len(orch.calls) : orch.calls[i] = name}

\* the call of orch is done with provider name
DoneWith(name) ==
    /\ CallsOf(name) # {}
    /\ CallEnded \/ orch.order[orch.p] # name

\* C16: within one generate_response call a provider is called at most
\* max_retries + 1 times, exactly max_retries + 1 times when each of its
\* attempts fails with a retryable LLMError (an empty response included),
\* and never again once a later provider has been called.
C16_RetryBudget ==
    /\ \A name \in {orch.calls[i] : i \in 1..Len(orch.calls)} :
          /\ Cardinality(CallsOf(name)) <= orch.max_retries + 1
          /\ (/\ DoneWith(name)
              /\ \A i \in AttemptsOn(name) :
                    ErrorOfAttempt(i) \in {"LLMError", "LLMError: Invalid response"})
             => Cardinality(CallsOf(name)) = orch.max_retries + 1
    /\ \A i, j, k \in 1..Len(orch.calls) :
          (i < j /\ j < k /\ orch.calls[j] # orch.calls[i])
          => orch.calls[k] # orch.calls[i]

C16_Witness ==
    /\ orch.pc = "raised"
    /\ orch.max_retries = 1
    /\ orch.calls = <<"openrouter", "openrouter", "gemini", "gemini">>
    /\ ErrorOfAttempt(1) = "LLMError"
    /\ ErrorOfAttempt(2) = "LLMError: Invalid response"

\* the place of provider name in the configured order
ConfiguredPlace(name) ==
    CHOOSE i \in 1..Len(ProviderOrder) : ProviderOrder[i] = name

\* the providers called up to position i of orch.calls
CalledUpTo(i) == {orch.calls[k] : k \in 1..i}

\* C17: generate_response tries the providers that are available at call
\* time, in the configured order with preferred_provider first when it is
\* available; a preferred_provider that is unavailable or unknown leaves the
\* configured order, and no unavailable provider is called.
C17_ProviderOrder ==
    orch.pc # "idle" =>
        /\ {orch.order[i] : i \in 1..Len(orch.order)} = orch.available
        /\ Len(orch.order) = Cardinality(orch.available)
        /\ LET first == IF orch.preferred_provider \in orch.available THEN 2 ELSE 1 IN
           /\ first = 2 => orch.order[1] = orch.preferred_provider
           /\ \A i, j \in first..Len(orch.order) :
                 i < j => ConfiguredPlace(orch.order[i]) < ConfiguredPlace(orch.order[j])
        /\ \A i \in 1..Len(orch.calls) :
              /\ orch.calls[i] \in orch.available
              /\ orch.calls[i] = orch.order[Cardinality(CalledUpTo(i))]

C17_Witness ==
    /\ orch.preferred_provider = "gemini"
    /\ orch.available = {"openrouter", "gemini"}
    /\ orch.calls = <<"gemini", "openrouter">>

\* C18: parse_credit_card_data and parse_comprehensive_data raise
\* ConfigurationError exactly when no LLM provider is configured: with
\* OpenRouter or Gemini configured they never raise it.
C18_ConfigurationErrorIffNoProvider ==
    (last.op = "crawl" /\ last.parser_calls = 1)
    => (last.parser_exc = "ConfigurationError"
           <=> ~(last.configured \/ last.openrouter))

\* the step is a crawl of source id whose parser call returned
\* {validation_errors, data} with a non-empty list of records as data (the
\* row the crawl created keeps what the parser returned in parsed_json)
ParserRejectedRecords(id) ==
    /\ CrawlOf(id)
    /\ last'.parser_calls = 1 /\ last'.parser_exc = ""
    /\ NewRows # {}
    /\ LET parsed == records'[Len(records')].parsed_json IN
       /\ parsed.t = "validation_errors"
       /\ parsed.inner = "list"
       /\ parsed.cards # <<>>

\* cs has a CreditCard of the bank under this name with this annual fee
HasCard(cs, bank_id, name, annual_fee) ==
    \E c \in cs : c.bank_id = bank_id /\ c.name = name /\ c.annual_fee = annual_fee

\* the step stored exactly the rejected records of source id: each record is
\* the CreditCard row of its (bank, name), every other row is as before; the
\* CrawledContent row is completed and the crawl returned True
RejectedRecordsStored(id) ==
    LET data == records'[Len(records')].parsed_json.cards
        names == {data[i].name : i \in 1..Len(data)}
    IN /\ last'.ret
       /\ records'[Len(records')].processing_status = "completed"
       /\ \A i \in 1..Len(data) :
             (\A j \in (i + 1)..Len(data) : data[j].name # data[i].name)
             => HasCard(cards', BankOf(id), data[i].name, data[i].annual_fee)
       /\ \A c \in cards' :
             \/ c \in cards /\ ~(c.bank_id = BankOf(id) /\ c.name \in names)
             \/ \E i \in 1..Len(data) :
                   /\ c.bank_id = BankOf(id) /\ c.name = data[i].name
                   /\ c.annual_fee = data[i].annual_fee
       /\ \A c \in cards :
             ~(c.bank_id = BankOf(id) /\ c.name \in names) => c \in cards'

\* C19: when the validator rejects the parsed records, the parser returns
\* {validation_errors, data} without raising, and for a non-empty data the
\* crawler upserts exactly the records in data, marks the CrawledContent row
\* completed and returns True.
C19_RejectedRecordsAreStored ==
    [][\A id \in DataSourceIds :
          ParserRejectedRecords(id) => RejectedRecordsStored(id)]_vars

\* what does hold of C19: the same, for the crawls in which no upsert raises
C19_StoredUnlessUpsertRaises ==
    [][\A id \in DataSourceIds :
          (ParserRejectedRecords(id) /\ last'.upsert_raised = 0)
          => RejectedRecordsStored(id)]_vars

\* C20: after any sequence of update_credit_card_data calls there is at most
\* one CreditCard row per (bank_id, name): a record whose cleaned name is the
\* name of an existing card of the bank updates that row and creates no second
\* one.
C20_OneRowPerBankAndName ==
    \A c \in cards : \A d \in cards :
        (c.bank_id = d.bank_id /\ c.name = d.name) => c = d

\* a crawl has just overwritten the existing card of the bank with the fee of
\* the record of the same name
C20_Witness ==
    /\ last.op = "crawl" /\ last.overwritten = 1 /\ last.upsert_raised = 0
    /\ HasCard(cards, BankOf(last.id), NegativeFeeCard.name,
               NegativeFeeCard.annual_fee)

\* the fixed field set of a parsed record, the name apart
FixedFieldSet ==
    {"annual_fee", "interest_rate_apr", "lounge_access_international",
     "lounge_access_domestic", "lounge_access_condition", "cash_advance_fee",
     "late_payment_fee", "annual_fee_waiver_policy", "reward_points_policy",
     "additional_features"}

\* the last call of update_credit_card_data upserted its record over an
\* existing CreditCard with other values
UpdatedExisting ==
    last.op = "update_cards" /\ last.upsert_raised = 0 /\ last.overwritten = 1

\* the CreditCard the last call's record is stored under has, in each of
\* fields, the value of the record, or the default where the record omits it
RowTakesRecord(fields) ==
    \A c \in cards :
        (c.bank_id = last.id /\ c.name = CleanedName(last.parsed))
        => \A f \in fields : c[f] = Get(last.parsed, f, NewCreditCard[f])

\* C21: when an upsert updates an existing CreditCard, every field of the
\* fixed field set takes the value of the new parsed record, or its default
\* when the record omits it; no value of the previous row survives.
C21_UpdateOverwritesEveryField ==
    UpdatedExisting => RowTakesRecord(FixedFieldSet)

\* what does hold of C21: the same for every field but lounge_access_condition
C21_UpdateOverwritesPreparedFields ==
    UpdatedExisting => RowTakesRecord(FixedFieldSet \ {"lounge_access_condition"})

\* the currency markers the repository names: "Remove ALL currency symbols
\* and text (TK., BDT, USD, $)" of the parsing prompt, and the US$ of
\* _update_single_card
CurrencyMarkers ==
    {<<"T", "K", ".">>, <<"B", "D", "T">>, <<"U", "S", "D">>, <<"$">>,
     <<"U", "S", "$">>}

\* a pure amount string: it starts with a currency marker or is purely numeric
IsAmountString(s) ==
    \/ \E m \in CurrencyMarkers : StartsWith(s, m)
    \/ IsDigit(Remove(Remove(s, ","), "."))

\* C22: the pipeline never persists a CreditCard under an empty name or a pure
\* amount string: a record whose name is empty, only whitespace, starts with a
\* currency marker or is purely numeric is stored under the name
\* "Credit Card (Annual Fee: {annual_fee})".
C22_NoCardNamedAsAmount ==
    /\ \A c \in cards : Strip(c.name) # <<>> /\ ~IsAmountString(c.name)
    /\ (/\ last.op = "update_cards" /\ last.upsert_raised = 0
        /\ LET name == Strip(Get(last.parsed, "name", <<>>)) IN
           name = <<>> \/ IsAmountString(name))
       => HasCard(cards, last.id, FallbackName(Get(last.parsed, "annual_fee", 0)),
                  Get(last.parsed, "annual_fee", 0))

\* what does hold of C22: the same for the names _update_single_card tests
\* for, the markers "TK." and "US$" only
C22_NoCardNamedAsTakaAmount ==
    /\ \A c \in cards : Strip(c.name) # <<>> /\ ~LooksLikeAmount(c.name)
    /\ (/\ last.op = "update_cards" /\ last.upsert_raised = 0
        /\ LET name == Strip(Get(last.parsed, "name", <<>>)) IN
           name = <<>> \/ LooksLikeAmount(name))
       => HasCard(cards, last.id, FallbackName(Get(last.parsed, "annual_fee", 0)),
                  Get(last.parsed, "annual_fee", 0))

\* failed_attempt_count of source id has grown by the number of its crawls
\* that ended in a counted failure, and the source is inactive from 5 on
FailuresCounted(id) ==
    /\ sources[id].failed_attempt_count = crawls.count0[id] + crawls.counted[id]
    /\ sources[id].failed_attempt_count >= FailureThreshold => ~sources[id].is_active

\* C23: if k crawls of the same DataSource each end in a counted failure,
\* failed_attempt_count grows by exactly k even when the crawls overlap in
\* time: no increment is lost, and the source is inactive as soon as the k
\* failures bring the count to 5.
C23_NoIncrementLost ==
    \A id \in BatchIds : id \notin crawls.reset => FailuresCounted(id)

\* what does hold of C23: the same while no two crawls have overlapped
C23_NoIncrementLostInTurn ==
    \A id \in BatchIds :
        (id \notin crawls.reset /\ crawls.begun < 2) => FailuresCounted(id)

\* C24: no crawler operation ever changes a DataSource's is_active from false
\* to true, under any interleaving of a running crawl with an operator's
\* deactivation of that source or with another crawl's automatic
\* deactivation; only an explicit operator action reactivates a source.
C24_CrawlNeverReactivates ==
    [][CrawlStep => \A id \in BatchIds :
                        ~sources[id].is_active => ~sources'[id].is_active]_vars

\* what does hold of C24: a step of a crawl that does not end in a counted
\* failure (the timestamp saves, the reset after a success) leaves is_active
\* of every source as it is
C24_OnlyCountedFailureWritesActivity ==
    [][(CrawlStep /\ crawls'.counted = crawls.counted)
       => \A id \in BatchIds : sources'[id].is_active = sources[id].is_active]_vars

\* the tables after the crawl of frame f and then the crawl of frame g, one
\* after the other, from the tables w
InSequence(w, f, g) ==
    Crawl(Crawl(w, f.id, f.ext, f.env, {}, now).w, g.id, g.ext, g.env, {}, now).w

\* the rows of a table kept in creation order
RowsOf(recs) == {recs[i] : i \in 1..Len(recs)}

\* two crawls of different sources have overlapped and both have returned,
\* and nothing else has written to the tables since the first of them began
TwoCrawlsOverlapped ==
    /\ \A p \in Workers : crawls.frames[p].pc = "done"
    /\ crawls.frames[1].id # crawls.frames[2].id
    /\ crawls.begun = 2
    /\ crawls.deactivated = {}

\* the tables in columns are those of one of the two sequential executions
SameAsInSequence(columns) ==
    \E order \in {<<1, 2>>, <<2, 1>>} :
        LET w == InSequence(crawls.base, crawls.frames[order[1]],
                            crawls.frames[order[2]])
        IN /\ "sources" \in columns => sources = w.sources
           /\ "records" \in columns => RowsOf(records) = RowsOf(w.records)
           /\ "cards" \in columns => cards = w.cards

\* C25: two crawls of different DataSources that run concurrently leave the
\* same final DataSource, CrawlRecord and CreditCard state as some sequential
\* execution of the two crawls, including when both sources belong to the
\* same bank and their parse results contain cards with the same name.
C25_ConcurrentCrawlsSerializable ==
    TwoCrawlsOverlapped => SameAsInSequence({"sources", "records", "cards"})

\* what does hold of C25: the same for the DataSource and CrawledContent rows
C25_SourcesAndRecordsSerializable ==
    TwoCrawlsOverlapped => SameAsInSequence({"sources", "records"})

\* C26: when the crawl service raises inside the crawl_bank_data_source task,
\* the task requests a retry with countdown 60 * 2^retries seconds while
\* retries < max_retries (3) and returns a result with status "error" once
\* retries = max_retries, so it is retried at most 3 times; when the service
\* returns True or False the task returns status "success" or "failed" and
\* never retries.
C26_TaskRetriesThreeTimes ==
    /\ task.retries <= 3
    /\ task.executions <= 1 + 3
    /\ task.outcome = "raised" =>
          \/ /\ task.state = "retry"
             /\ task.retries - 1 < 3
             /\ task.countdown = 60 * (2 ^ (task.retries - 1))
          \/ /\ task.state = "done"
             /\ task.retries = 3
             /\ task.result.status = "error"
    /\ task.outcome = "True" => (task.state = "done" /\ task.result.status = "success")
    /\ task.outcome = "False" => (task.state = "done" /\ task.result.status = "failed")
    /\ task.result.status = "error" => task.outcome = "raised"

\* the service raised in every run: the task was retried with countdowns 60,
\* 120 and 240 and its fourth run returned the error result
C26_Witness ==
    /\ task.state = "done" /\ task.result.status = "error"
    /\ task.executions = 4 /\ task.countdown = 240

\* the latest call is one of find_schedule_charge_url
FinderCalled == call.op = "find_schedule_charge_url"

\* C27: find_schedule_charge_url never raises; whenever the fetch of base_url
\* fails with a network error it returns found = false, method = "error" and
\* the error message, whether or not an LLM provider is available.
C27_NetworkErrorIsMethodError ==
    (FinderCalled /\ call.args.fetches[1] = NetworkFailure)
    => /\ ~call.result.found
       /\ call.result.method = "error"
       /\ call.result.error = <<"Failed to fetch webpage: ", NetworkFailure.exc>>

\* what does hold of C27: the same when a provider is available
C27_NetworkErrorWithProvider ==
    (FinderCalled /\ call.args.available /\ call.args.fetches[1] = NetworkFailure)
    => /\ ~call.result.found
       /\ call.result.method = "error"
       /\ call.result.error = <<"Failed to fetch webpage: ", NetworkFailure.exc>>

\* the latest call had no LLM provider available, or its orchestrator call
\* failed, and no fetch it made failed
FellBackToPatterns ==
    /\ FinderCalled
    /\ \/ ~call.args.available /\ call.args.fetches[1].exc = ""
       \/ /\ call.args.available /\ call.args.llm.exc # ""
          /\ call.args.fetches[1].exc = "" /\ call.args.fetches[2].exc = ""

\* the fetch whose page the fallback of the latest call searched
SearchedFetch ==
    IF call.args.available THEN call.args.fetches[2] ELSE call.args.fetches[1]

\* C28: when no LLM provider is available, or the orchestrator call fails
\* (AllLLMProvidersFailedError or any other exception),
\* find_schedule_charge_url answers by pattern matching: it returns found =
\* true with the first link in page order whose text or URL matches a charge
\* pattern and method = "pattern_matching", or found = false with method =
\* "pattern_matching" when no link matches.
C28_FallbackFindsFirstMatchingLink ==
    FellBackToPatterns
    => call.result = PatternSearch(AllAnchors(BaseUrl, SearchedFetch))

\* what does hold of C28: the same over the links _fetch_webpage_content
\* lists, the first LinksLimit anchors that have a text
C28_FallbackFindsFirstListedLink ==
    FellBackToPatterns
    => call.result = PatternSearch(_fetch_webpage_content(BaseUrl, SearchedFetch).links)

\* the latest call is one of extract_content
ExtractorCalled == call.op = "extract_content"

\* the fetch of the latest call failed on the network: a timeout, a connection
\* failure or a 5xx response
NetworkFailed ==
    \/ call.args.get.raises \in {"Timeout", "ConnectionError"}
    \/ call.args.get.raises = "" /\ call.args.get.status_code >= 500

\* the fetch of the latest call was answered with a 4xx response
ClientErrored ==
    /\ call.args.get.raises = ""
    /\ call.args.get.status_code >= 400 /\ call.args.get.status_code < 500

\* the fetch of the latest call succeeded and the content type is neither
\* declared nor detectable
Undetectable ==
    /\ call.args.get.raises = "" /\ call.args.get.status_code < 400
    /\ call.args.content_type \notin ContentTypes
    /\ call.args.detected_type \notin ContentTypes

SanitizerCalled == call.op = "sanitize_credit_card_data"

NumericFields == {"annual_fee", "interest_rate_apr"}

\* s without currency symbol, thousands separators and percent sign
Unmarked(s) == Remove(Remove(Remove(s, "$"), ","), "%")

\* C30: sanitize_credit_card_data converts an annual_fee or interest_rate_apr
\* given as a string with a currency symbol, thousands separators or a percent
\* sign to its numeric value ("$1,250.50" becomes 1250.5, "22%" becomes 22.0);
\* only input that contains no parsable number sanitizes to 0.
C30_MarkedNumbersConverted ==
    SanitizerCalled
    => \A field \in NumericFields :
          LET value == call.args[field] IN
          (value.t = "str" /\ IsFloat(Unmarked(value.s)))
          => call.result[field] = Max0(FloatOf(Unmarked(value.s)))

\* what does hold of C30: a string that float() accepts as it is becomes its
\* value, at least 0, and every other string, marked or not, becomes 0
C30_UnmarkedNumbersConverted ==
    SanitizerCalled
    => \A field \in NumericFields :
          LET value == call.args[field] IN
          value.t = "str"
          => call.result[field] =
                IF IsFloat(value.s) THEN Max0(FloatOf(value.s)) ELSE 0

\* the latest step is a crawl that called the parser: its structured request
\* was answered with JSON
ParsedStructured ==
    /\ call.op = "crawl_bank_data_source"
    /\ call.result.parser_calls > 0
    /\ call.args.env.configured /\ call.args.env.answer = "json"

\* C31: for a fixed structured parse result, the CreditCard rows upserted by
\* a crawl and the crawl's success or failure do not depend on the
\* comprehensive parse: whether the comprehensive LLM call succeeds, fails or
\* returns different JSON, the tables and the return value are the same and
\* only the stored raw comprehensive JSON differs.
C31_ComprehensiveParseNotUsed ==
    ParsedStructured
    => /\ call.result.ret = call.result.other.ret
       /\ call.result.w = call.result.other.w

\* what does hold of C31: the same between two crawls whose comprehensive
\* requests both succeed
C31_ComprehensiveJsonNotUsed ==
    (/\ ParsedStructured
     /\ call.args.comprehensive.answer = "json"
     /\ call.args.other.answer = "json")
    => /\ call.result.ret = call.result.other.ret
       /\ call.result.w = call.result.other.w

\* the latest call is a generate_response made on both providers
ProvidersCalled == call.op = "provider.generate_response"

LLMErrors ==
    {"LLMAuthenticationError", "LLMRateLimitError", "LLMNetworkError",
     "LLMResponseError"}

\* C32: OpenRouterProvider and GeminiProvider classify the same underlying
\* failure identically: for every backend failure message both raise the same
\* class among LLMAuthenticationError, LLMRateLimitError, LLMNetworkError and
\* LLMResponseError, and a generate call on an unconfigured provider raises
\* LLMConfigurationError in both.
C32_ProvidersClassifyAlike ==
    ProvidersCalled
    => /\ call.result.openrouter = call.result.gemini
       /\ ~call.args.is_available
            => call.result.openrouter = "LLMConfigurationError"
       /\ (call.args.is_available /\ call.args.backend.kind # "text")
            => call.result.openrouter \in LLMErrors

\* what does hold of C32: the same for the failures whose message names
\* "authentication", or names both or neither of "unauthorized" and "api_key"
C32_AlikeButForAuthPhrases ==
    (/\ ProvidersCalled
     /\ \/ "authentication" \in call.args.backend.message
        \/ ("unauthorized" \in call.args.backend.message
              <=> "api_key" \in call.args.backend.message))
    => /\ call.result.openrouter = call.result.gemini
       /\ ~call.args.is_available
            => call.result.openrouter = "LLMConfigurationError"
       /\ (call.args.is_available /\ call.args.backend.kind # "text")
            => call.result.openrouter \in LLMErrors

\* s is an initial segment of t
IsPrefix(s, t) == Len(s) <= Len(t) /\ SubSeq(t, 1, Len(s)) = s

\* the columns of a CrawledContent row that are written at its creation only
Created(row) ==
    [data_source |-> row.data_source, content_hash |-> row.content_hash,
     extracted_content |-> row.extracted_content, parsed_json |-> row.parsed_json,
     crawled_at |-> row.crawled_at]

PrimaryAsked ==
    /\ call.op = "parse_credit_card_data"
    /\ call.args.genai /\ call.args.GEMINI_API_KEY
    /\ call.args.openrouter_api_key /\ call.args.OPENAI_AVAILABLE

\* a backend was called during the latest call
Called(provider) ==
    \E i \in 1..Len(call.result.calls) : call.result.calls[i] = provider

\* C34: whenever the primary provider (OpenRouter) does not produce a
\* non-empty response, by raising or by returning an empty response, the
\* Gemini fallback is tried before the parser raises AIParsingError: an
\* AIParsingError for a missing response reaches the crawler only after both
\* providers have failed.
C34_GeminiTriedAfterOpenRouter ==
    PrimaryAsked
    => /\ call.args.openrouter \in {"raises", "none", "empty"} => Called("gemini")
       /\ (call.result.exc = "AIParsingError" /\ call.result.stage = "response")
            => /\ call.result.calls = <<"openrouter", "gemini">>
               /\ call.args.gemini \in {"raises", "none", "empty"}

\* what does hold of C34: the same when OpenRouter raises; when it answers
\* with no choice or an empty response AIParsingError is raised at once
C34_GeminiTriedAfterOpenRouterRaises ==
    PrimaryAsked
    => /\ call.args.openrouter = "raises"
            => /\ call.result.calls = <<"openrouter", "gemini">>
               /\ (call.result.exc = "AIParsingError" /\ call.result.stage = "response")
                    <=> call.args.gemini \in {"raises", "none", "empty"}
       /\ call.args.openrouter \in {"none", "empty"}
            => /\ call.result.calls = <<"openrouter">>
               /\ call.result.exc = "AIParsingError"

\* the step is a run of find_and_update_schedule_charge_urls
DiscoveryRun == last'.op = "find_and_update_schedule_charge_urls"

\* the run of the step found url for bank
FoundIn(bank, url) == call'.args[bank] = url

\* the rows of (bank, url)
SourcesOf(srcs, bank, url) ==
    {i \in 1..Len(srcs) : srcs[i].bank = bank /\ srcs[i].url = url}

\* C35: running schedule-charge URL discovery any number of times with the
\* same discovered URL leaves exactly one BankDataSource for (bank, url): the
\* first run creates it active with last_verified_at set, and every later run
\* only updates last_verified_at and leaves is_active, failed_attempt_count
\* and content_type of that source unchanged.
C35_DiscoveryIdempotent ==
    [][DiscoveryRun
       => /\ Len(sources') >= Len(sources)
          /\ \A bank \in DiscoveryBanks, url \in Urls :
                /\ Cardinality(SourcesOf(sources', bank, url)) <= 1
                /\ FoundIn(bank, url)
                     => Cardinality(SourcesOf(sources', bank, url)) = 1
          /\ \A i \in 1..Len(sources) :
                sources'[i] =
                    IF FoundIn(sources[i].bank, sources[i].url)
                    THEN [sources[i] EXCEPT !.last_verified_at = now]
                    ELSE sources[i]
          /\ \A i \in (Len(sources) + 1)..Len(sources') :
                /\ FoundIn(sources'[i].bank, sources'[i].url)
                /\ sources'[i].is_active
                /\ sources'[i].failed_attempt_count = 0
                /\ sources'[i].last_verified_at = now]_vars

\* a source that discovery created and that crawls have since deactivated was
\* found again on a later day: it is still the only row of its url, inactive,
\* with its count, and verified that day
C35_Witness ==
    /\ last.op = "find_and_update_schedule_charge_urls"
    /\ call.args[1] = "u1"
    /\ call.result.created = 0
    /\ Cardinality(SourcesOf(sources, 1, "u1")) = 1
    /\ \E i \in SourcesOf(sources, 1, "u1") :
          /\ ~sources[i].is_active
          /\ sources[i].failed_attempt_count = FailureThreshold
          /\ sources[i].last_verified_at = now
          /\ now > 0

\* C36: under sequential execution failed_attempt_count never exceeds
\* FailureThreshold and a single crawl never increments it more than once: a
\* source that reaches FailureThreshold is inactive, and crawls of inactive
\* sources change nothing.
C36_CounterBoundedByThreshold ==
    [][\A id \in DataSourceIds :
          /\ sources'[id].failed_attempt_count <= FailureThreshold
          /\ sources'[id].failed_attempt_count >= FailureThreshold
                => ~sources'[id].is_active
          /\ last'.op = "crawl"
                => sources'[id].failed_attempt_count
                      <= sources[id].failed_attempt_count + 1
          /\ (last'.op = "crawl" /\ last'.id = id /\ ~sources[id].is_active)
                => /\ sources' = sources /\ records' = records /\ cards' = cards
                   /\ last'.extract_calls = 0]_vars

\* C36 as the code has it: a single crawl never increments
\* failed_attempt_count more than once, a crawl that brings it to
\* FailureThreshold or beyond leaves the source inactive, and crawls of
\* inactive sources change nothing; only activate_sources makes a source
\* active whose count is FailureThreshold or more, and the count exceeds
\* FailureThreshold only by failed crawls of such a source.
C36_CounterBoundedUnlessActivated ==
    [][\A id \in DataSourceIds :
          /\ last'.op = "crawl"
                => /\ sources'[id].failed_attempt_count
                         <= sources[id].failed_attempt_count + 1
                   /\ sources'[id].failed_attempt_count > sources[id].failed_attempt_count
                         => (sources'[id].failed_attempt_count >= FailureThreshold
                               <=> ~sources'[id].is_active)
          /\ (last'.op = "crawl" /\ last'.id = id /\ ~sources[id].is_active)
                => /\ sources' = sources /\ records' = records /\ cards' = cards
                   /\ last'.extract_calls = 0
          /\ (sources'[id].is_active /\ sources'[id].failed_attempt_count >= FailureThreshold)
                => \/ last'.op = "activate_sources"
                   \/ sources[id].is_active
                        /\ sources[id].failed_attempt_count >= FailureThreshold
          /\ sources'[id].failed_attempt_count > FailureThreshold
                => \/ sources[id].failed_attempt_count > FailureThreshold
                   \/ /\ last'.op = "crawl" /\ last'.id = id
                      /\ sources[id].is_active
                      /\ sources[id].failed_attempt_count = FailureThreshold]_vars

\* a source that failed crawls deactivated and an operator activated again
\* was crawled and failed once more: the count is FailureThreshold + 1 and
\* the source inactive again
C36_Witness ==
    /\ last.op = "crawl" /\ last.id = 1 /\ ~last.ret
    /\ last.extract_calls = 1
    /\ ~sources[1].is_active
    /\ sources[1].failed_attempt_count = FailureThreshold + 1

\* C37: when crawl_bank_data_source returns, the CrawlRecord it created in
\* status processing has reached completed or failed: no crawl leaves a record
\* in status pending or processing, whichever step after the record's
\* creation fails.
C37_NoRecordLeftProcessing ==
    \A i \in 1..Len(records) :
        records[i].processing_status \in {"completed", "failed"}

\* what does hold of C37: a record is left in status processing only by a
\* crawl whose parsed JSON is no dict and no list, in which
\* _update_database_safely raises before its try statement
C37_OnlyScalarLeftProcessing ==
    \A i \in 1..Len(records) :
        \/ records[i].processing_status \in {"completed", "failed"}
        \/ /\ records[i].processing_status = "processing"
           /\ _extract_actual_data(records[i].parsed_json).t = "scalar"

\* the keys of the errors dict of the call of orch
ErrorKeys == {orch.errors[j].key : j \in 1..Len(orch.errors)}

C39_CardValuesInRange ==
    \A c \in cards :
        /\ c.annual_fee >= 0
        /\ c.interest_rate_apr >= 0
        /\ c.interest_rate_apr <= 100

\* what does hold of C39: a step writes a row with a value out of range only
\* when it is a crawl whose parser call rejected the records and passed them
\* through with validation_errors
C39_OutOfRangeOnlyWhenRejected ==
    [][(\E c \in cards' \ cards :
            c.annual_fee < 0 \/ c.interest_rate_apr < 0 \/ c.interest_rate_apr > 100)
       => \E id \in DataSourceIds : ParserRejectedRecords(id)]_vars

SanitizedTwice == call.op = "sanitize_credit_card_data twice"

\* the whitespace-only strings of an additional_features list
BlankFeatures(additional_features) ==
    IF additional_features.t = "list"
    THEN {i \in 1..Len(additional_features.items) :
            /\ additional_features.items[i].t = "str"
            /\ additional_features.items[i].s # <<>>
            /\ Strip(additional_features.items[i].s) = <<>>}
    ELSE {}

\* C40: sanitize_credit_card_data is idempotent: sanitizing data that is
\* already sanitized changes nothing, for every record; in particular after
\* one pass additional_features is a list of trimmed strings none of which
\* is empty.
C40_SanitizeIdempotent ==
    SanitizedTwice =>
        LET features == call.result.once.additional_features.items IN
        /\ call.result.again = call.result.once
        /\ \A i \in 1..Len(features) :
              /\ features[i].t = "str"
              /\ features[i].s # <<>>
              /\ Strip(features[i].s) = features[i].s

\* what does hold of C40: the second pass changes nothing, and the features
\* of the first are trimmed non-empty strings, when the parsed card has no
\* feature that is a string of whitespace only
C40_IdempotentButForBlankFeatures ==
    (SanitizedTwice /\ BlankFeatures(call.args.additional_features) = {}) =>
        LET features == call.result.once.additional_features.items IN
        /\ call.result.again = call.result.once
        /\ \A i \in 1..Len(features) :
              /\ features[i].t = "str"
              /\ features[i].s # <<>>
              /\ Strip(features[i].s) = features[i].s

====
